---- MODULE Spec2Model ----
(***************************************************************************)
(* Model of the segmentation and quantification core of mupattern          *)
(* (muapplication/apps/tissue/core.py): _segment_frame_peaks,              *)
(* _segment_frame_watershed, run_segment_watershed and run_analyze.        *)
(*                                                                         *)
(* A 2-D array is a sequence of rows, each row a sequence of numbers; the  *)
(* shape of an array is derived from it, never stored beside it.  Pixel    *)
(* coordinates are 1-based here: the source's (y, x) is <<y + 1, x + 1>>.  *)
(* float64 values are fixed-point numbers with FxOne units per 1.0.        *)
(***************************************************************************)
EXTENDS Integers, Sequences, FiniteSets, TLC

VARIABLES
    pc,             \* "start" before the call, "done" after it returned
    fn,             \* the function the state calls: "peaks", "watershed", "analyze"
    frame,          \* the input frame (argument fluo), raw intensities
    sigma,          \* blur parameter; the blur runs iff sigma > 0
    min_distance,   \* window half-width parameter
    min_intensity,  \* intensity floor of the peak mode
    background,     \* background value of the frame; in run_segment_watershed and
                    \* run_analyze the float of lines 118-120, fixed-point
    margin,         \* threshold offset of the watershed mode
    tie,            \* the library's rule among equal candidates: "first" or "last"
    n_found,        \* n_plateaus (peaks), n_seeds (watershed); -1 before the call
    seeds,          \* seed_label (peaks), markers (watershed); <<>> when not built
    region,         \* peak_mask (peaks), foreground (watershed); <<>> before the call
    mask,           \* the returned mask (segmenters), the mask read (analyze)
    t,              \* timepoint of the frame (analyze)
    crop_id,        \* crop of the frame (analyze)
    rows,           \* the records appended by run_analyze's frame loop
    store,          \* crops.zarr, the position's group: crop arrays, background array
    masks_zarr,     \* masks.zarr, the position's crop group: crop id -> masks per t
    output,         \* the CSV file at the output path
    output_before,  \* the CSV file as it was when run_analyze was entered
    on_progress,    \* TRUE iff a progress callback is passed
    reports,        \* the fractions the callback received in the running call
    done,           \* the counter done
    crop_idx,       \* the loop variable crop_idx
    raised,         \* the exception that ended the call, "none" if none
    calls,          \* the functions entered in this run, in order
    prev,           \* the results of the run before this one, <<>> if none
    edt_origin,     \* the library's anchor row for an input without a zero
    events,         \* the running call's writes and reports, in order
    s,              \* parse_slice_string: the argument s, a sequence of characters
    length,         \* parse_slice_string: the argument length
    returned,       \* parse_slice_string: the list returned, <<>> if none
    message,        \* the message of the exception that ended the call
    df,             \* _find_violations, _clean_df: the argument, a table of rows
    violations,     \* the rows _find_violations returned
    cleaned,        \* the table _clean_df returned
    report,         \* the correction report _clean_df returned
    first,          \* the call of _clean_df before this one, <<>> if none
    backend,        \* run_segment: the argument backend
    model,          \* _predict_position: the classifier, image -> label
    batch_size,     \* _predict_position: the argument batch_size
    t_range,        \* the argument t_range, <<>> for None
    crop_range,     \* the argument crop_range, <<>> for None
    batch_imgs,     \* the images of the pending batch
    batch_meta,     \* the (t, crop) of the images of the pending batch
    results,        \* the list results
    batches         \* the batches handed to the model so far, by their (t, crop)

\* the state of run_segment_watershed and run_analyze beyond one frame
pipeline_vars == <<store, masks_zarr, output, output_before, on_progress, reports,
                   done, crop_idx, raised, calls, prev, edt_origin, events>>

vars == <<pc, fn, frame, sigma, min_distance, min_intensity, background, margin,
          tie, n_found, seeds, region, mask, t, crop_id, rows, store, masks_zarr,
          output, output_before, on_progress, reports, done, crop_idx, raised,
          calls, prev, edt_origin, events, s, length, returned, message, df,
          violations, cleaned, report, first, backend, model, batch_size,
          t_range, crop_range, batch_imgs, batch_meta, results, batches>>

\* the state of one frame's segmentation and quantification
segment_vars == <<frame, sigma, min_distance, min_intensity, background, margin,
                  tie, n_found, seeds, region, mask, t, crop_id, rows>>

\* the state of parse_slice_string
slice_vars == <<s, length, returned, message>>

\* the state of _find_violations and _clean_df
clean_vars == <<df, violations, cleaned, report, first>>

\* the state of the command-line helpers
\* the state of _predict_position
predict_vars == <<model, batch_size, t_range, crop_range, batch_imgs, batch_meta,
                  results, batches>>

tool_vars == <<slice_vars, clean_vars, backend, predict_vars>>

----------------------------------------------------------------------------
(* Bounds of the explored inputs *)

MaxPix == 6          \* exhaustive frames have at most MaxPix pixels
MaxMinDistance == 2  \* min_distance ranges over 1..MaxMinDistance
MaxSide == 7         \* side of the largest sparse (block) frame
MaxBlock == 3        \* side of the largest bright block of a sparse frame
MaxQuantPix == 3     \* frame / mask pairs of the quantifier have at most this many pixels
MaxT == 1            \* timepoints range over 0..MaxT

Intensities == {0, 1, 2}   \* pixel values of the exhaustive frames
Labels == {0, 1, 2, 3}     \* mask values of the quantifier's masks

----------------------------------------------------------------------------
(* Arrays *)

Height(a) == Len(a)
Width(a) == IF Len(a) = 0 THEN 0 ELSE Len(a[1])
Shape(a) == <<Height(a), Width(a)>>
Pix(a) == (1 .. Height(a)) \X (1 .. Width(a))
At(a, p) == a[p[1]][p[2]]

\* Op(v); written so that v is evaluated a single time
Once(v, Op(_)) == CHOOSE r \in {Op(x) : x \in {v}} : TRUE

\* the array whose elements are those of a, as a tuple of tuples (a itself)
Array(a) == [y \in 1 .. Len(a) |-> a[y] \o <<>>] \o <<>>

\* np.zeros(shape, dtype)
Zeros(shape) == Array([y \in 1 .. shape[1] |-> [x \in 1 .. shape[2] |-> 0]])

\* position of a pixel in C (row-major) order
Raster(a, p) == (p[1] - 1) * Width(a) + p[2]

\* the element of the non-empty pixel set S that comes first / last in C order
FirstOf(a, S) == CHOOSE p \in S : \A q \in S : Raster(a, p) <= Raster(a, q)
LastOf(a, S) == CHOOSE p \in S : \A q \in S : Raster(a, p) >= Raster(a, q)

SetMax(S) == CHOOSE m \in S : \A k \in S : k <= m
SetMin(S) == CHOOSE m \in S : \A k \in S : m <= k

Clamp(i, lo, hi) == IF i < lo THEN lo ELSE IF i > hi THEN hi ELSE i

Abs(i) == IF i < 0 THEN -i ELSE i

SqDist(p, q) == (p[1] - q[1]) * (p[1] - q[1]) + (p[2] - q[2]) * (p[2] - q[2])

----------------------------------------------------------------------------
(* Numeric kernels (scipy.ndimage, skimage.segmentation) as the source uses them *)

FxOne == 16

\* float(v): the whole number v as a fixed-point real
Float(v) == v * FxOne

\* np.asarray(fluo, dtype=np.float64): the raw intensities as fixed-point reals
AsFloat(a) == Array([y \in 1 .. Height(a) |-> [x \in 1 .. Width(a) |-> a[y][x] * FxOne]])

\* one pass of the blur along the rows' direction (axis 1), mode="nearest":
\* weights 1/4, 1/2, 1/4, the pixel beyond an edge is the edge pixel
BlurAxis1(a) ==
    Array([y \in 1 .. Height(a) |-> [x \in 1 .. Width(a) |->
        (a[y][Clamp(x - 1, 1, Width(a))] + 2 * a[y][x]
            + a[y][Clamp(x + 1, 1, Width(a))])]])

\* one pass along the columns' direction (axis 0)
BlurAxis0(a) ==
    Array([y \in 1 .. Height(a) |-> [x \in 1 .. Width(a) |->
        (a[Clamp(y - 1, 1, Height(a))][x] + 2 * a[y][x]
            + a[Clamp(y + 1, 1, Height(a))][x])]])

Rescaled(b) ==
    Array([y \in 1 .. Height(b) |-> [x \in 1 .. Width(b) |-> b[y][x] \div FxOne]])

\* ndimage.gaussian_filter(fluo, sigma=sigma, mode="nearest"), sigma > 0:
\* a separable, symmetric, normalised smoothing of the fixed-point frame.
\* Each pass multiplies by 4, so the two passes are divided by 16 = FxOne.
GaussianFilter(a) ==
    Once(BlurAxis0(a), LAMBDA b0 :
        Once(BlurAxis1(b0), LAMBDA b1 : Rescaled(b1)))

\* the window of ndimage.maximum_filter(a, size, mode="nearest") around p:
\* with edge replication every window element is a pixel of the array within
\* Chebyshev distance size // 2 of p
Window(a, size, p) ==
    (Clamp(p[1] - size \div 2, 1, Height(a)) .. Clamp(p[1] + size \div 2, 1, Height(a)))
        \X (Clamp(p[2] - size \div 2, 1, Width(a))
                .. Clamp(p[2] + size \div 2, 1, Width(a)))

\* ndimage.maximum_filter(a, size=size, mode="nearest")
MaximumFilter(a, size) ==
    Array([y \in 1 .. Height(a) |-> [x \in 1 .. Width(a) |->
        SetMax({At(a, q) : q \in Window(a, size, <<y, x>>)})]])

\* np.zeros(fluo.size, ...): a flat array in place of one of the frame's shape
NoCellsFlat(fl) == Zeros(<<1, Height(fl) * Width(fl)>>)

\* return np.ones(fluo.shape, dtype=np.uint32)
NoCellsOnes(fl) ==
    [y \in 1 .. Height(fl) |-> [x \in 1 .. Width(fl) |-> 1]]

\* return np.zeros(fluo.shape, dtype=np.uint32)
NoCells(fl) == Zeros(Shape(fl))

\* the pixels where a boolean array is True
TruePix(b) == {p \in Pix(b) : At(b, p)}

\* neighbours under ndimage.label's default structure and under
\* watershed's default connectivity=1: the 4-neighbourhood
Adjacent(p, q) == SqDist(p, q) = 1

\* the 4-connected component of S that contains the pixels of C
RECURSIVE Grow(_, _)
Grow(S, C) ==
    Once({q \in S \ C : \E p \in C : Adjacent(p, q)}, LAMBDA N :
        IF N = {} THEN C ELSE Grow(S, C \cup N))

\* ndimage.label(b): components numbered 1..n in the C order of their first pixel
RECURSIVE LabelFrom(_, _, _, _)
LabelFrom(b, rest, n, lab) ==
    IF rest = {} THEN [labeled |-> lab, n |-> n]
    ELSE Once(Grow(rest, {FirstOf(b, rest)}), LAMBDA C :
            Once(Array([y \in 1 .. Height(b) |-> [x \in 1 .. Width(b) |->
                     IF <<y, x>> \in C THEN n + 1 ELSE lab[y][x]]]), LAMBDA lab1 :
                Once(rest \ C, LAMBDA rest1 : LabelFrom(b, rest1, n + 1, lab1))))

Label(b) ==
    Once(TruePix(b), LAMBDA T :
        Once(Zeros(Shape(b)), LAMBDA z : LabelFrom(b, T, 0, z)))

\* the rule of the library among equal candidates
Preferred(a, C, rule) == IF rule = "first" THEN FirstOf(a, C) ELSE LastOf(a, C)

\* the feature pixel nearest to p by city-block distance
NearestFeatureTaxicab(a, F, p, rule) ==
    Once(SetMin({Abs(p[1] - q[1]) + Abs(p[2] - q[2]) : q \in F}), LAMBDA d :
        Preferred(a, {q \in F : Abs(p[1] - q[1]) + Abs(p[2] - q[2]) = d}, rule))

\* the feature pixel nearest to p (Euclidean) that ndimage.distance_transform_edt
\* reports in `indices`; among equidistant features the library's scan order
\* decides, which `rule` stands for
NearestFeature(a, F, p, rule) ==
    Once(SetMin({SqDist(p, q) : q \in F}), LAMBDA d :
        Preferred(a, {q \in F : SqDist(p, q) = d}, rule))

----------------------------------------------------------------------------
(* _segment_frame_peaks *)

\* size = max(3, 2 * min_distance + 1)
WindowSize(md) == IF 2 * md + 1 > 3 THEN 2 * md + 1 ELSE 3

\* fluo after lines 23-25
Smoothed(f, sg) ==
    Once(AsFloat(f), LAMBDA fl : IF sg > 0 THEN GaussianFilter(fl) ELSE fl)

\* (fluo > max_filtered) & (fluo > min_intensity)
PeakMaskStrict(fl, md, mi) ==
    Once(MaximumFilter(fl, WindowSize(md)), LAMBDA max_filtered :
        Array([y \in 1 .. Height(fl) |-> [x \in 1 .. Width(fl) |->
            fl[y][x] > max_filtered[y][x] /\ fl[y][x] > mi * FxOne]]))

\* peak_mask = (fluo >= max_filtered) & (fluo > min_intensity)
PeakMask(fl, md, mi) ==
    Once(MaximumFilter(fl, WindowSize(md)), LAMBDA max_filtered :
        Array([y \in 1 .. Height(fl) |-> [x \in 1 .. Width(fl) |->
            fl[y][x] >= max_filtered[y][x] /\ fl[y][x] > mi * FxOne]]))

\* the last pixel, in C order, of plateau i that has the plateau's maximum
PlateauSeedLast(fl, labeled, i) ==
    Once({p \in Pix(labeled) : At(labeled, p) = i}, LAMBDA P :
        Once(SetMax({At(fl, p) : p \in P}), LAMBDA m :
            LastOf(fl, {p \in P : At(fl, p) = m})))

\* ys, xs = np.where(labeled_plateaus == i); idx = np.argmax(fluo[ys, xs]):
\* the first pixel, in C order, of plateau i that has the plateau's maximum
PlateauSeed(fl, labeled, i) ==
    Once({p \in Pix(labeled) : At(labeled, p) = i}, LAMBDA P :
        Once(SetMax({At(fl, p) : p \in P}), LAMBDA m :
            FirstOf(fl, {p \in P : At(fl, p) = m})))

\* seed_label[sy, sx] = i + 1
SeedLabelShifted(fl, labeled, n) ==
    Once([i \in 1 .. n |-> PlateauSeed(fl, labeled, i)] \o <<>>, LAMBDA seed :
        Array([y \in 1 .. Height(fl) |-> [x \in 1 .. Width(fl) |->
            IF \E i \in 1 .. n : seed[i] = <<y, x>>
            THEN SetMax({i \in 1 .. n : seed[i] = <<y, x>>}) + 1
            ELSE 0]]))

\* seed_label after the loop of lines 33-39
SeedLabel(fl, labeled, n) ==
    Once([i \in 1 .. n |-> PlateauSeed(fl, labeled, i)] \o <<>>, LAMBDA seed :
        Array([y \in 1 .. Height(fl) |-> [x \in 1 .. Width(fl) |->
            IF \E i \in 1 .. n : seed[i] = <<y, x>>
            THEN SetMax({i \in 1 .. n : seed[i] = <<y, x>>})
            ELSE 0]]))

\* the seeds alone, without the nearest-seed assignment
SeedsOnly(seed_label, rule) == seed_label

\* labels = seed_label[indices[0], indices[1]] with indices from
\* distance_transform_edt(~seed_binary, return_indices=True)
NearestSeedLabels(seed_label, rule) ==
    Once({p \in Pix(seed_label) : At(seed_label, p) > 0}, LAMBDA F :
        Array([y \in 1 .. Height(seed_label) |-> [x \in 1 .. Width(seed_label) |->
            At(seed_label, NearestFeature(seed_label, F, <<y, x>>, rule))]]))

\* lines 31-43, from the smoothed frame, its peak mask and the labelled plateaus
PeaksFromPlateaus(fl, peak_mask, lab, rule) ==
    IF lab.n = 0
    THEN [peak_mask |-> peak_mask, n |-> 0, seed_label |-> <<>>,
          ret |-> NoCells(fl)]
    ELSE Once(SeedLabel(fl, lab.labeled, lab.n), LAMBDA seed_label :
            [peak_mask |-> peak_mask, n |-> lab.n, seed_label |-> seed_label,
             ret |-> NearestSeedLabels(seed_label, rule)])

\* the whole function: its locals and its return value
SegmentFramePeaks(f, sg, md, mi, rule) ==
    Once(Smoothed(f, sg), LAMBDA fl :
        Once(PeakMask(fl, md, mi), LAMBDA peak_mask :
            Once(Label(peak_mask), LAMBDA lab :
                PeaksFromPlateaus(fl, peak_mask, lab, rule))))

----------------------------------------------------------------------------
(* _segment_frame_watershed *)

\* fluo >= (background + margin)
ForegroundInclusive(fl, th) ==
    Array([y \in 1 .. Height(fl) |-> [x \in 1 .. Width(fl) |-> fl[y][x] >= th]])

\* foreground = fluo > (background + margin); th is the fixed-point threshold
Foreground(fl, th) ==
    Array([y \in 1 .. Height(fl) |-> [x \in 1 .. Width(fl) |-> fl[y][x] > th]])

\* The points ndimage.distance_transform_edt measures from when its input has
\* no zero element at all: the library documents no result for that input, and
\* its feature transform then leaves every pixel with one fixed "nearest
\* feature" at, or one row before, the first pixel.
Anchors(fg) ==
    IF TruePix(fg) = Pix(fg) THEN {<<1, 1>>, <<0, 1>>} ELSE {<<0, 0>>}

\* ndimage.distance_transform_edt(foreground), squared: 0 on the zero elements,
\* elsewhere the squared distance to the nearest zero element (to the anchor
\* when there is none)
DistanceTransform(fg, anchor) ==
    Once(Pix(fg) \ TruePix(fg), LAMBDA B :
        Array([y \in 1 .. Height(fg) |-> [x \in 1 .. Width(fg) |->
            IF ~fg[y][x] THEN 0
            ELSE IF B = {} THEN SqDist(<<y, x>>, anchor)
            ELSE SetMin({SqDist(<<y, x>>, q) : q \in B})]]))

\* (dist >= max_dist) & (dist > 1.0)
DistPeakMaskAboveOne(dist, md) ==
    Once(MaximumFilter(dist, WindowSize(md)), LAMBDA max_dist :
        Array([y \in 1 .. Height(dist) |-> [x \in 1 .. Width(dist) |->
            dist[y][x] >= max_dist[y][x] /\ dist[y][x] > 1]]))

\* (dist > max_dist) & (dist > 0.5)
DistPeakMaskStrict(dist, md) ==
    Once(MaximumFilter(dist, WindowSize(md)), LAMBDA max_dist :
        Array([y \in 1 .. Height(dist) |-> [x \in 1 .. Width(dist) |->
            dist[y][x] > max_dist[y][x] /\ dist[y][x] >= 1]]))

\* peak_mask = (dist >= max_dist) & (dist > 0.5); on squared whole-number
\* distances dist > 0.5 is dist^2 >= 1
DistPeakMask(dist, md) ==
    Once(MaximumFilter(dist, WindowSize(md)), LAMBDA max_dist :
        Array([y \in 1 .. Height(dist) |-> [x \in 1 .. Width(dist) |->
            dist[y][x] >= max_dist[y][x] /\ dist[y][x] >= 1]]))

\* the pixels of N in the order the flooding visits them
RECURSIVE NeighbourSeq(_, _, _)
NeighbourSeq(a, N, rule) ==
    IF N = {} THEN <<>>
    ELSE Once(Preferred(a, N, rule), LAMBDA q :
            <<q>> \o NeighbourSeq(a, N \ {q}, rule))

\* the heap element popped next: least value, then least age; elements equal
\* in both (markers pushed before the flooding starts) in the library's order
PopNext(a, queue, rule) ==
    Once(SetMin({e.value : e \in queue}), LAMBDA v :
        Once(SetMin({e.age : e \in {c \in queue : c.value = v}}), LAMBDA g :
            Once({e \in queue : e.value = v /\ e.age = g}, LAMBDA C :
                Once(Preferred(a, {e.index : e \in C}, rule), LAMBDA p :
                    CHOOSE e \in C : e.index = p))))

\* the flooding loop of skimage.segmentation.watershed (no compactness, no
\* watershed line): pop the element of highest priority, label each of its
\* unlabelled neighbours inside the mask with its label and push them
RECURSIVE Flood(_, _, _, _, _, _)

\* one iteration, for the popped element elem and its reached neighbours ns
FloodStep(image, fg, out, queue, age, rule, elem, ns) ==
    Once(Array([y \in 1 .. Height(image) |-> [x \in 1 .. Width(image) |->
             IF \E k \in 1 .. Len(ns) : ns[k] = <<y, x>>
             THEN At(out, elem.index) ELSE out[y][x]]]), LAMBDA out1 :
        Once((queue \ {elem})
                 \cup {[value |-> At(image, ns[k]), age |-> age + k, index |-> ns[k]]
                          : k \in 1 .. Len(ns)}, LAMBDA queue1 :
            Flood(image, fg, out1, queue1, age + Len(ns), rule)))

Flood(image, fg, out, queue, age, rule) ==
    IF queue = {} THEN out
    ELSE Once(PopNext(image, queue, rule), LAMBDA elem :
            Once(NeighbourSeq(image,
                              {q \in Pix(image) : /\ Adjacent(elem.index, q)
                                                  /\ At(fg, q)
                                                  /\ At(out, q) = 0},
                              rule), LAMBDA ns :
                FloodStep(image, fg, out, queue, age, rule, elem, ns)))

\* return np.asarray(markers, dtype=np.uint32): the seeds, not flooded
MarkersOnly(image, markers, fg, rule) == markers

\* watershed(image, markers, mask=mask): the markers inside the mask are the
\* initial labels and the initial heap, all of age 0
Watershed(image, markers, fg, rule) ==
    Once(Array([y \in 1 .. Height(image) |-> [x \in 1 .. Width(image) |->
             IF fg[y][x] THEN markers[y][x] ELSE 0]]), LAMBDA out0 :
        Once({[value |-> At(image, q), age |-> 0, index |-> q]
                 : q \in {q \in Pix(image) : At(out0, q) # 0}}, LAMBDA queue0 :
            Flood(image, fg, out0, queue0, 0, rule)))

\* -dist
Negated(a) == Array([y \in 1 .. Height(a) |-> [x \in 1 .. Width(a) |-> 0 - a[y][x]]])

\* lines 62-69, from the smoothed frame, its foreground and the distance map
WatershedFromDist(fl, foreground, dist, md, rule) ==
    Once(DistPeakMask(dist, md), LAMBDA peak_mask :
        Once(Label(peak_mask), LAMBDA lab :
            IF lab.n = 0
            THEN [foreground |-> foreground, n |-> 0, markers |-> lab.labeled,
                  ret |-> NoCells(fl)]
            ELSE Once(Negated(dist), LAMBDA image :
                    [foreground |-> foreground, n |-> lab.n, markers |-> lab.labeled,
                     ret |-> Watershed(image, lab.labeled, foreground, rule)])))

\* lines 58-61
WatershedFromSmoothed(fl, th, md, anchor, rule) ==
    Once(Foreground(fl, th), LAMBDA foreground :
        IF TruePix(foreground) = {}
        THEN [foreground |-> foreground, n |-> 0, markers |-> <<>>,
              ret |-> NoCells(fl)]
        ELSE Once(DistanceTransform(foreground, anchor), LAMBDA dist :
                WatershedFromDist(fl, foreground, dist, md, rule)))

\* the whole function: its locals and its return value
SegmentFrameWatershed(f, th, sg, md, anchor, rule) ==
    Once(Smoothed(f, sg), LAMBDA fl : WatershedFromSmoothed(fl, th, md, anchor, rule))

----------------------------------------------------------------------------
(* run_analyze, the body of its loop over t (lines 257-269) *)

\* np.unique(masks): the distinct values, ascending
RECURSIVE Ascending(_)
Ascending(S) ==
    IF S = {} THEN <<>> ELSE <<SetMin(S)>> \o Ascending(S \ {SetMin(S)})

Unique(a) == Ascending({At(a, p) : p \in Pix(a)})

RECURSIVE SumOver(_, _)
SumOver(a, S) ==
    IF S = {} THEN 0
    ELSE LET p == CHOOSE q \in S : TRUE IN At(a, p) + SumOver(a, S \ {p})

\* cell_area = int(np.sum(masks > 0)): the area of all cells
CellRowAllCells(fl, masks, tt, cid, cell_id, bg) ==
    [t |-> tt, crop |-> cid, cell |-> cell_id,
     total_fluorescence |-> SumOver(fl, {p \in Pix(masks) : At(masks, p) = cell_id}),
     cell_area |-> Cardinality({p \in Pix(masks) : At(masks, p) > 0}),
     background |-> bg]

\* total_fluorescence = float(np.sum(fluo[masks >= cell_id]))
CellRowFromLabelUp(fl, masks, tt, cid, cell_id, bg) ==
    [t |-> tt, crop |-> cid, cell |-> cell_id,
     total_fluorescence |-> SumOver(fl, {p \in Pix(masks) : At(masks, p) >= cell_id}),
     cell_area |-> Cardinality({p \in Pix(masks) : At(masks, p) = cell_id}),
     background |-> bg]

\* the row carries cell_area * background in place of background
CellRowAreaBackground(fl, masks, tt, cid, cell_id, bg) ==
    [t |-> tt, crop |-> cid, cell |-> cell_id,
     total_fluorescence |-> SumOver(fl, {p \in Pix(masks) : At(masks, p) = cell_id}),
     cell_area |-> Cardinality({p \in Pix(masks) : At(masks, p) = cell_id}),
     background |-> bg * Cardinality({p \in Pix(masks) : At(masks, p) = cell_id})]

\* the row appended for cell_id
CellRow(fl, masks, tt, cid, cell_id, bg) ==
    LET cell_mask == {p \in Pix(masks) : At(masks, p) = cell_id}
    IN  [t |-> tt, crop |-> cid, cell |-> cell_id,
         total_fluorescence |-> SumOver(fl, cell_mask),
         cell_area |-> Cardinality(cell_mask),
         background |-> bg]

RECURSIVE AppendCells(_, _, _, _, _, _, _)

\* the loop without `if cell_id == 0: continue`
RECURSIVE AppendEveryId(_, _, _, _, _, _, _)
AppendEveryId(rows0, ids, fl, masks, tt, cid, bg) ==
    IF ids = <<>> THEN rows0
    ELSE AppendEveryId(Append(rows0, CellRow(fl, masks, tt, cid, Head(ids), bg)),
                       Tail(ids), fl, masks, tt, cid, bg)

\* rows after the loop over np.unique(masks), starting from rows0
AppendCells(rows0, ids, fl, masks, tt, cid, bg) ==
    IF ids = <<>> THEN rows0
    ELSE AppendCells(
            IF Head(ids) = 0 THEN rows0
            ELSE Append(rows0, CellRow(fl, masks, tt, cid, Head(ids), bg)),
            Tail(ids), fl, masks, tt, cid, bg)

FrameRows(rows0, fl, masks, tt, cid, bg) ==
    AppendCells(rows0, Unique(masks), fl, masks, tt, cid, bg)

----------------------------------------------------------------------------
(* The stores and the output file of run_segment_watershed and run_analyze *)

\* the crop keys, in the order sorted() gives them
CropKeys == <<"000", "001">>

\* the place of key k in that order
KeyRank(k) == CHOOSE i \in 1 .. Len(CropKeys) : CropKeys[i] = k

\* crop_ids = list(crop_grp.keys()): the keys as the store lists them, here
\* the last key first
ListedKeys(keys) ==
    SelectSeq([i \in 1 .. Len(CropKeys) |-> CropKeys[Len(CropKeys) + 1 - i]],
              LAMBDA k : k \in keys)

\* crop_ids = sorted(crop_grp.keys())
SortedKeys(keys) == SelectSeq(CropKeys, LAMBDA k : k \in keys)

\* a position group: crop maps each key to the frames of its fluorescence
\* channel, one per t; background holds bg_arr[t, channel, 0] per t when the
\* group has a background array; no_channel holds the crops whose array lacks
\* the fluorescence channel, so that reading a frame of theirs raises
NoStore ==
    [crop |-> <<>>, has_background |-> FALSE, background |-> <<>>, no_channel |-> {}]

\* no file at the output path
NoFile == [exists |-> FALSE, rows |-> <<>>]

\* the array group f with array v at key k, created or replaced
Put(f, k, v) == [x \in (DOMAIN f) \cup {k} |-> IF x = k THEN v ELSE f[x]]

\* the values of a, ascending
RECURSIVE Insert(_, _)
Insert(sq, v) ==
    IF sq = <<>> \/ v <= Head(sq) THEN <<v>> \o sq
    ELSE <<Head(sq)>> \o Insert(Tail(sq), v)

RECURSIVE SortedPixels(_, _)
SortedPixels(a, k) ==
    IF k = 0 THEN <<>>
    ELSE Insert(SortedPixels(a, k - 1),
                a[((k - 1) \div Width(a)) + 1][((k - 1) % Width(a)) + 1])

\* float(np.median(fluo)): the middle value, the mean of the two middle values
\* when the number of pixels is even
Median(a) ==
    LET n == Height(a) * Width(a)
        sq == SortedPixels(a, n)
    IN  IF n % 2 = 1 THEN Float(sq[(n + 1) \div 2])
        ELSE (Float(sq[n \div 2]) + Float(sq[(n \div 2) + 1])) \div 2

\* bg_arr = None  # missing -> background 0
BackgroundOrZero(st, tt, fluo) ==
    IF st.has_background THEN Float(st.background[tt + 1]) ELSE 0

\* lines 117-120 and 259-262: the background of the frame fluo at time tt
BackgroundOf(st, tt, fluo) ==
    IF st.has_background THEN Float(st.background[tt + 1]) ELSE Median(fluo)

\* total_work = sum(int(crop_grp[cid].shape[0]) for cid in crop_ids)
RECURSIVE SumTimes(_, _)
SumTimes(st, ids) ==
    IF ids = <<>> THEN 0 ELSE Len(st.crop[Head(ids)]) + SumTimes(st, Tail(ids))

TotalWork(st) == SumTimes(st, SortedKeys(DOMAIN st.crop))

----------------------------------------------------------------------------
(* Inputs *)

FramesOf(shape, vals) == [1 .. shape[1] -> [1 .. shape[2] -> vals]]

ShapesUpTo(n) == {sh \in (1 .. n) \X (1 .. n) : sh[1] * sh[2] <= n}

\* every frame of at most MaxPix pixels over Intensities
SmallFrames == UNION {FramesOf(sh, Intensities) : sh \in ShapesUpTo(MaxPix)}

\* an n x n frame of zeros with a k x k block of value v whose first pixel is <<y0, x0>>
BlockFrame(n, k, y0, x0, v) ==
    [y \in 1 .. n |-> [x \in 1 .. n |->
        IF y \in y0 .. (y0 + k - 1) /\ x \in x0 .. (x0 + k - 1) THEN v ELSE 0]]

\* a single bright pixel has value 100, a larger block value 10
BrightVal(k) == IF k = 1 THEN 100 ELSE 10

\* the frames of side MaxSide - 2 .. MaxSide with one bright block
SparseFrames ==
    {BlockFrame(c[1], c[2], c[3], c[4], BrightVal(c[2])) :
        c \in {c \in ((MaxSide - 2) .. MaxSide) \X (1 .. MaxBlock) \X (1 .. MaxSide)
                    \X (1 .. MaxSide) :
                c[3] + c[2] - 1 <= c[1] /\ c[4] + c[2] - 1 <= c[1]}}

TieRules == {"first", "last"}

\* no store, no file and no callback: a single frame is processed
InitNoPipeline ==
    /\ store = NoStore
    /\ masks_zarr = <<>>
    /\ output = NoFile
    /\ output_before = NoFile
    /\ on_progress = FALSE
    /\ reports = <<>>
    /\ done = 0
    /\ crop_idx = 0
    /\ raised = "none"
    /\ calls = <<>>
    /\ prev = <<>>
    /\ edt_origin = 1
    /\ events = <<>>

InitNoSlices ==
    /\ s = <<>>
    /\ length = 0
    /\ returned = <<>>
    /\ message = ""

InitNoClean ==
    /\ df = <<>>
    /\ violations = <<>>
    /\ cleaned = <<>>
    /\ report = <<>>
    /\ first = <<>>

\* no helper is called
InitNoPredict ==
    /\ model = <<>>
    /\ batch_size = 1
    /\ t_range = <<>>
    /\ crop_range = <<>>
    /\ batch_imgs = <<>>
    /\ batch_meta = <<>>
    /\ results = <<>>
    /\ batches = <<>>

InitNoTools == InitNoSlices /\ InitNoClean /\ backend = "" /\ InitNoPredict

InitCommon ==
    /\ InitNoTools
    /\ pc = "start"
    /\ n_found = -1
    /\ seeds = <<>>
    /\ region = <<>>
    /\ rows = <<>>
    /\ InitNoPipeline

InitPeaks ==
    /\ InitCommon
    /\ fn = "peaks"
    /\ \/ /\ frame \in SmallFrames
          /\ \E c \in {<<0, 0>>, <<0, 1>>, <<1, 0>>} :
                sigma = c[1] /\ min_intensity = c[2]
       \/ /\ frame \in SparseFrames
          /\ sigma = 0
          /\ min_intensity = 0
    /\ min_distance \in 1 .. MaxMinDistance
    /\ tie \in TieRules
    /\ background = 0 /\ margin = 0 /\ t = 0 /\ crop_id = "000"
    /\ mask = <<>>

InitWatershed ==
    /\ InitCommon
    /\ fn = "watershed"
    /\ \/ /\ frame \in SmallFrames
          /\ \E c \in {<<0, 0, 0>>, <<0, 0, 1>>, <<1, 1, 0>>} :
                sigma = c[1] /\ background = c[2] /\ margin = c[3]
       \/ /\ frame \in SparseFrames
          /\ sigma = 0
          /\ background = 0
          /\ margin = 0
    /\ min_distance \in 1 .. MaxMinDistance
    /\ tie \in TieRules
    /\ min_intensity = 0 /\ t = 0 /\ crop_id = "000"
    /\ mask = <<>>

\* a frame and a mask of the same shape, as run_analyze reads them for one (crop, t)
InitAnalyze ==
    /\ InitCommon
    /\ fn = "analyze"
    /\ \E sh \in ShapesUpTo(MaxQuantPix) :
          /\ frame \in FramesOf(sh, Intensities)
          /\ mask \in FramesOf(sh, Labels)
    /\ background \in {0, 1}
    /\ t \in 0 .. MaxT
    /\ crop_id \in {"000", "001"}
    /\ sigma = 0 /\ min_distance = 1 /\ min_intensity = 0 /\ margin = 0
    /\ tie = "first"

\* the frames of the explored crop arrays: one row of two pixels
StoreFrames == FramesOf(<<1, 2>>, {0, 1})

\* a crop array's fluorescence channel: 0 .. MaxT + 1 frames of one shape
CropArrays == UNION {[1 .. n -> StoreFrames] : n \in 0 .. (MaxT + 1)}

\* the crop groups over every subset of the keys
CropGroups ==
    UNION {[keys -> CropArrays] : keys \in SUBSET {CropKeys[k] : k \in 1 .. Len(CropKeys)}}

\* background arrays: constant 0, and t at time t
BackgroundArrays == {[k \in 1 .. (MaxT + 1) |-> 0], [k \in 1 .. (MaxT + 1) |-> k - 1]}

\* a mask array group left by an earlier segmentation of the crops c: the
\* label of a pixel is its intensity plus k
MasksLeft(c, k) ==
    [cid \in DOMAIN c |-> [n \in 1 .. Len(c[cid]) |->
        [y \in 1 .. Height(c[cid][n]) |-> [x \in 1 .. Width(c[cid][n]) |->
            c[cid][n][y][x] + k]]]]

\* the same group without the array of the last key
WithoutLast(m) ==
    [cid \in {k \in DOMAIN m : \E j \in DOMAIN m : KeyRank(j) > KeyRank(k)} |-> m[cid]]

\* a file written by an earlier run
OldFile ==
    [exists |-> TRUE,
     rows |-> <<[t |-> 0, crop |-> "000", cell |-> 1, total_fluorescence |-> 1,
                 cell_area |-> 1, background |-> 0]>>]

\* side of the frames that show one bright block, and the background stored
\* for them
BlobSide == 4
BlobBackground == 5

\* BlobSide x BlobSide frames with one block brighter than BlobBackground,
\* every other pixel at the value floor
BlobFrames(floor) ==
    {[y \in 1 .. BlobSide |-> [x \in 1 .. BlobSide |->
          IF y \in c[2] .. (c[2] + c[1] - 1) /\ x \in c[3] .. (c[3] + c[1] - 1)
          THEN BrightVal(c[1]) ELSE floor]] :
        c \in {c \in (1 .. (BlobSide - 1)) \X (1 .. BlobSide) \X (1 .. BlobSide) :
                c[2] + c[1] - 1 <= BlobSide /\ c[3] + c[1] - 1 <= BlobSide}}

\* the same with a block of three by three pixels whose centre is at the floor
DentedFrames(floor) ==
    {[y \in 1 .. BlobSide |-> [x \in 1 .. BlobSide |->
          IF /\ y \in c[1] .. (c[1] + 2) /\ x \in c[2] .. (c[2] + 2)
             /\ <<y, x>> # <<c[1] + 1, c[2] + 1>>
          THEN BrightVal(3) ELSE floor]] :
        c \in (1 .. (BlobSide - 2)) \X (1 .. (BlobSide - 2))}

\* the locals of a function that walks the crops of a store
InitWalk ==
    /\ pc = "start"
    /\ n_found = -1 /\ seeds = <<>> /\ region = <<>>
    /\ frame = <<>> /\ mask = <<>> /\ background = 0
    /\ min_intensity = 0
    /\ t = 0 /\ crop_id = "" /\ rows = <<>>
    /\ output_before = NoFile
    /\ reports = <<>> /\ done = 0 /\ crop_idx = 0
    /\ raised = "none" /\ calls = <<>> /\ prev = <<>>
    /\ events = <<>>

InitPipelineCommon ==
    /\ InitNoTools
    /\ fn = "pipeline"
    /\ InitWalk

\* readable stores, with and without a background array, with and without
\* masks of an earlier segmentation
InitStores ==
    /\ InitPipelineCommon
    /\ \E c \in CropGroups :
          /\ \/ store = [crop |-> c, has_background |-> FALSE, background |-> <<>>,
                          no_channel |-> {}]
             \/ \E b \in BackgroundArrays :
                   store = [crop |-> c, has_background |-> TRUE, background |-> b,
                            no_channel |-> {}]
          /\ masks_zarr \in {<<>>, MasksLeft(c, 0), MasksLeft(c, 1)}
    /\ output = NoFile
    /\ on_progress = TRUE
    /\ edt_origin \in {0, 1}
    /\ sigma = 0 /\ margin = 0 /\ min_distance = 1 /\ tie = "first"

\* stores with a crop that lacks the channel, or masks that lack a crop,
\* and a file of an earlier run at the output path
InitFaulty ==
    /\ InitPipelineCommon
    /\ \E c \in CropGroups :
          /\ \E bad \in {S \in SUBSET (DOMAIN c) : Cardinality(S) <= 1} :
                store = [crop |-> c, has_background |-> FALSE, background |-> <<>>,
                         no_channel |-> bad]
          /\ masks_zarr \in {MasksLeft(c, 1), WithoutLast(MasksLeft(c, 1))}
    /\ output = OldFile
    /\ on_progress \in BOOLEAN
    /\ edt_origin = 1
    /\ sigma = 0 /\ margin = 0 /\ min_distance = 1 /\ tie = "first"

\* one crop with two timepoints, each showing one bright block, and a
\* background array holding BlobBackground at both times
InitBlob ==
    /\ InitPipelineCommon
    /\ \E floor \in {0, BlobBackground} :
          \E f0, f1 \in BlobFrames(floor) \cup DentedFrames(floor) :
              store = [crop |-> [cid \in {CropKeys[1]} |-> <<f0, f1>>],
                       has_background |-> TRUE,
                       background |-> [k \in 1 .. 2 |-> BlobBackground],
                       no_channel |-> {}]
    /\ masks_zarr = <<>>
    /\ output = NoFile
    /\ on_progress = TRUE
    /\ edt_origin = 1
    /\ sigma \in {0, 1}
    /\ margin = 0
    /\ min_distance \in 1 .. MaxMinDistance
    /\ tie = "first"

InitPipeline == InitStores \/ InitFaulty

----------------------------------------------------------------------------
(* Operations *)

CallPeaks ==
    /\ pc = "start"
    /\ fn = "peaks"
    /\ \E r \in {SegmentFramePeaks(frame, sigma, min_distance, min_intensity, tie)} :
           /\ mask' = r.ret
           /\ n_found' = r.n
           /\ seeds' = r.seed_label
           /\ region' = r.peak_mask
    /\ pc' = "done"
    /\ UNCHANGED <<fn, frame, sigma, min_distance, min_intensity, background,
                   margin, tie, t, crop_id, rows>>
    /\ UNCHANGED pipeline_vars
    /\ UNCHANGED tool_vars

CallWatershed ==
    /\ pc = "start"
    /\ fn = "watershed"
    /\ \E anchor \in Anchors(Foreground(Smoothed(frame, sigma), Float(background + margin))) :
          \E r \in {SegmentFrameWatershed(frame, Float(background + margin), sigma,
                                          min_distance, anchor, tie)} :
              /\ mask' = r.ret
              /\ n_found' = r.n
              /\ seeds' = r.markers
              /\ region' = r.foreground
    /\ pc' = "done"
    /\ UNCHANGED <<fn, frame, sigma, min_distance, min_intensity, background,
                   margin, tie, t, crop_id, rows>>
    /\ UNCHANGED pipeline_vars
    /\ UNCHANGED tool_vars

AnalyzeFrame ==
    /\ pc = "start"
    /\ fn = "analyze"
    /\ rows' = FrameRows(rows, frame, mask, t, crop_id, background)
    /\ pc' = "done"
    /\ UNCHANGED <<fn, frame, sigma, min_distance, min_intensity, background,
                   margin, tie, n_found, seeds, region, mask, t, crop_id>>
    /\ UNCHANGED pipeline_vars
    /\ UNCHANGED tool_vars

----------------------------------------------------------------------------
(* run_segment_watershed *)

\* the anchor of the distance transform for the foreground of fluo
AnchorOf(fluo, th, sg, origin) ==
    IF TruePix(Foreground(Smoothed(fluo, sg), th)) = Pix(fluo)
    THEN <<origin, 1>> ELSE <<0, 0>>

\* mask_arr[t] = masks moved under `if on_progress`: without a callback the
\* array keeps the zeros it was created with
UnitMaskUnderCallback(fluo, bg, mg, sg, md, origin, rule) ==
    IF on_progress
    THEN SegmentFrameWatershed(fluo, bg + Float(mg), sg, md,
                               AnchorOf(fluo, bg + Float(mg), sg, origin), rule).ret
    ELSE Zeros(Shape(fluo))

\* the background computed for the first unit only and kept for the others
UnitMaskCarried(fluo, bg, mg, sg, md, origin, rule) ==
    Once(IF done = 0 THEN bg ELSE background, LAMBDA b :
        SegmentFrameWatershed(fluo, b + Float(mg), sg, md,
                              AnchorOf(fluo, b + Float(mg), sg, origin), rule).ret)

\* lines 121-127: the mask of one frame
UnitMask(fluo, bg, mg, sg, md, origin, rule) ==
    SegmentFrameWatershed(fluo, bg + Float(mg), sg, md,
                          AnchorOf(fluo, bg + Float(mg), sg, origin), rule).ret

\* on_progress(100 * done / total_work, ...): a percentage
ReportUnitPercent(log, cb, n, total) ==
    IF cb /\ total > 0 THEN Append(log, <<100 * n, total>>) ELSE log

\* the report after a unit (lines 131-132, 271-272): done / total_work
ReportUnit(log, cb, n, total) ==
    IF cb /\ total > 0 THEN Append(log, <<n, total>>) ELSE log

\* the report at the end (lines 134-135, 280-281): 1.0
ReportEnd(log, cb) == IF cb THEN Append(log, <<1, 1>>) ELSE log

\* the entries of the log of writes and reports
MaskWritten(cid, tt) == [kind |-> "mask", crop |-> cid, t |-> tt, done |-> 0]
Reported(n) == [kind |-> "report", crop |-> "", t |-> 0, done |-> n]
EndReported == [kind |-> "end", crop |-> "", t |-> 0, done |-> 0]
OutputOpened == [kind |-> "open", crop |-> "", t |-> 0, done |-> 0]
ArrayCreated(cid) == [kind |-> "create", crop |-> cid, t |-> 0, done |-> 0]
CsvWritten == [kind |-> "csv", crop |-> "", t |-> 0, done |-> 0]

\* lines 131-132, 271-272: the callback is called, if there is one
ReportLogged(log, cb, n, total) ==
    IF cb /\ total > 0 THEN Append(log, Reported(n)) ELSE log

\* lines 134-135, 280-281
EndLogged(log, cb) == IF cb THEN Append(log, EndReported) ELSE log

\* the callback called before mask_arr[t] = masks
UnitEventsReportFirst(log, cid, tt, cb, n, total) ==
    Append(ReportLogged(log, cb, n, total), MaskWritten(cid, tt))

\* lines 128-132: mask_arr[t] = masks, then the callback
UnitEvents(log, cid, tt, cb, n, total) ==
    ReportLogged(Append(log, MaskWritten(cid, tt)), cb, n, total)

\* lines 84-101: open the stores, sort the keys, count the work
SegmentStart ==
    /\ pc = "start"
    /\ fn = "pipeline"
    /\ IF prev = <<>> THEN TRUE ELSE prev[1].calls[1] = "run_segment_watershed"
    /\ calls' = <<"run_segment_watershed">>
    /\ reports' = <<>>
    /\ done' = 0
    /\ crop_idx' = 0
    /\ pc' = "seg_crop"
    /\ UNCHANGED <<fn, frame, sigma, min_distance, min_intensity, background,
                   margin, tie, n_found, seeds, region, mask, t, crop_id, rows,
                   store, masks_zarr, output, output_before, on_progress, raised,
                   prev, edt_origin>>
    /\ UNCHANGED tool_vars
    /\ events' = <<OutputOpened>>

\* lines 103-113: the next crop; its mask array is created anew, all zero
SegmentCrop ==
    /\ pc = "seg_crop"
    /\ crop_idx < Len(SortedKeys(DOMAIN store.crop))
    /\ \E cid \in {SortedKeys(DOMAIN store.crop)[crop_idx + 1]} :
          /\ crop_id' = cid
          /\ masks_zarr' = Put(masks_zarr, cid,
                               [k \in 1 .. Len(store.crop[cid]) |->
                                    Zeros(Shape(store.crop[cid][k]))])
          /\ IF Len(store.crop[cid]) = 0
             THEN crop_idx' = crop_idx + 1 /\ pc' = "seg_crop" /\ t' = t
             ELSE crop_idx' = crop_idx /\ pc' = "seg_frame" /\ t' = 0
    /\ UNCHANGED <<fn, frame, sigma, min_distance, min_intensity, background,
                   margin, tie, n_found, seeds, region, mask, rows, store, output,
                   output_before, on_progress, reports, done, raised, calls, prev,
                   edt_origin>>
    /\ UNCHANGED tool_vars
    /\ events' = Append(events, ArrayCreated(SortedKeys(DOMAIN store.crop)[crop_idx + 1]))

\* lines 116-132: one (crop, t) unit; then the next t, or the next crop
SegmentFrame ==
    /\ pc = "seg_frame"
    /\ IF crop_id \in store.no_channel
       THEN /\ raised' = "IndexError"
            /\ pc' = "aborted"
            /\ UNCHANGED <<frame, background, mask, masks_zarr, done, reports, t,
                           crop_idx, events>>
       ELSE /\ \E fluo \in {store.crop[crop_id][t + 1]} :
                 \E bg \in {BackgroundOf(store, t, fluo)} :
                     \E masks \in {UnitMask(fluo, bg, margin, sigma, min_distance,
                                              edt_origin, tie)} :
                         /\ frame' = fluo
                         /\ background' = bg
                         /\ mask' = masks
                         /\ masks_zarr' = [masks_zarr EXCEPT ![crop_id][t + 1] = masks]
            /\ done' = done + 1
            /\ reports' = ReportUnit(reports, on_progress, done + 1, TotalWork(store))
            /\ events' = UnitEvents(events, crop_id, t, on_progress, done + 1,
                                    TotalWork(store))
            /\ IF t + 1 < Len(store.crop[crop_id])
               THEN t' = t + 1 /\ crop_idx' = crop_idx /\ pc' = "seg_frame"
               ELSE t' = t /\ crop_idx' = crop_idx + 1 /\ pc' = "seg_crop"
            /\ raised' = raised
    /\ UNCHANGED <<fn, sigma, min_distance, min_intensity, margin, tie, n_found,
                   seeds, region, crop_id, rows, store, output, output_before,
                   on_progress, calls, prev, edt_origin>>
    /\ UNCHANGED tool_vars

\* lines 134-135: after the last crop
SegmentFinish ==
    /\ pc = "seg_crop"
    /\ crop_idx = Len(SortedKeys(DOMAIN store.crop))
    /\ reports' = ReportEnd(reports, on_progress)
    /\ pc' = "segmented"
    /\ UNCHANGED <<fn, frame, sigma, min_distance, min_intensity, background,
                   margin, tie, n_found, seeds, region, mask, t, crop_id, rows,
                   store, masks_zarr, output, output_before, on_progress, done,
                   crop_idx, raised, calls, prev, edt_origin>>
    /\ UNCHANGED tool_vars
    /\ events' = EndLogged(events, on_progress)

----------------------------------------------------------------------------
(* run_analyze *)

\* the output file opened for writing on entry, before any unit is read
AnalyzeStartOpensFile ==
    /\ fn = "pipeline"
    /\ \/ /\ pc = "start"
          /\ IF prev = <<>> THEN TRUE ELSE prev[1].calls[1] = "run_analyze"
       \/ pc = "segmented"
    /\ calls' = Append(IF pc = "start" THEN <<>> ELSE calls, "run_analyze")
    /\ output_before' = output
    /\ output' = [exists |-> TRUE, rows |-> <<>>]
    /\ rows' = <<>>
    /\ reports' = <<>>
    /\ done' = 0
    /\ crop_idx' = 0
    /\ pc' = "an_crop"
    /\ UNCHANGED <<fn, frame, sigma, min_distance, min_intensity, background,
                   margin, tie, n_found, seeds, region, mask, t, crop_id, store,
                   masks_zarr, on_progress, raised, prev, edt_origin>>
    /\ UNCHANGED tool_vars
    /\ events' = <<>>

\* lines 233-250: open the stores, sort the keys, start with no rows
AnalyzeStart ==
    /\ fn = "pipeline"
    /\ \/ /\ pc = "start"
          /\ IF prev = <<>> THEN TRUE ELSE prev[1].calls[1] = "run_analyze"
       \/ pc = "segmented"
    /\ calls' = Append(IF pc = "start" THEN <<>> ELSE calls, "run_analyze")
    /\ output_before' = output
    /\ rows' = <<>>
    /\ reports' = <<>>
    /\ done' = 0
    /\ crop_idx' = 0
    /\ pc' = "an_crop"
    /\ UNCHANGED <<fn, frame, sigma, min_distance, min_intensity, background,
                   margin, tie, n_found, seeds, region, mask, t, crop_id, store,
                   masks_zarr, output, on_progress, raised, prev, edt_origin>>
    /\ UNCHANGED tool_vars
    /\ events' = <<>>

\* lines 252-255: the next crop and its mask array
AnalyzeCrop ==
    /\ pc = "an_crop"
    /\ crop_idx < Len(SortedKeys(DOMAIN store.crop))
    /\ \E cid \in {SortedKeys(DOMAIN store.crop)[crop_idx + 1]} :
          /\ crop_id' = cid
          /\ IF cid \notin DOMAIN masks_zarr
             THEN /\ raised' = "KeyError"
                  /\ pc' = "aborted"
                  /\ UNCHANGED <<crop_idx, t>>
             ELSE /\ raised' = raised
                  /\ IF Len(store.crop[cid]) = 0
                     THEN crop_idx' = crop_idx + 1 /\ pc' = "an_crop" /\ t' = t
                     ELSE crop_idx' = crop_idx /\ pc' = "an_frame" /\ t' = 0
    /\ UNCHANGED <<fn, frame, sigma, min_distance, min_intensity, background,
                   margin, tie, n_found, seeds, region, mask, rows, store,
                   masks_zarr, output, output_before, on_progress, reports, done,
                   calls, prev, edt_origin>>
    /\ UNCHANGED tool_vars
    /\ UNCHANGED events

\* lines 257-272: one (crop, t) unit; then the next t, or the next crop
AnalyzeUnit ==
    /\ pc = "an_frame"
    /\ IF crop_id \in store.no_channel \/ t + 1 > Len(masks_zarr[crop_id])
       THEN /\ raised' = "IndexError"
            /\ pc' = "aborted"
            /\ UNCHANGED <<frame, background, mask, rows, done, reports, t, crop_idx,
                           events>>
       ELSE /\ \E fluo \in {store.crop[crop_id][t + 1]} :
                 \E bg \in {BackgroundOf(store, t, fluo)} :
                     \E masks \in {masks_zarr[crop_id][t + 1]} :
                         /\ frame' = fluo
                         /\ background' = bg
                         /\ mask' = masks
                         /\ rows' = FrameRows(rows, fluo, masks, t, crop_id, bg)
            /\ done' = done + 1
            /\ reports' = ReportUnit(reports, on_progress, done + 1, TotalWork(store))
            /\ events' = ReportLogged(events, on_progress, done + 1, TotalWork(store))
            /\ IF t + 1 < Len(store.crop[crop_id])
               THEN t' = t + 1 /\ crop_idx' = crop_idx /\ pc' = "an_frame"
               ELSE t' = t /\ crop_idx' = crop_idx + 1 /\ pc' = "an_crop"
            /\ raised' = raised
    /\ UNCHANGED <<fn, sigma, min_distance, min_intensity, margin, tie, n_found,
                   seeds, region, crop_id, store, masks_zarr, output, output_before,
                   on_progress, calls, prev, edt_origin>>
    /\ UNCHANGED tool_vars

\* lines 274-281: after the last crop the file is opened and the rows written
AnalyzeWrite ==
    /\ pc = "an_crop"
    /\ crop_idx = Len(SortedKeys(DOMAIN store.crop))
    /\ output' = [exists |-> TRUE, rows |-> rows]
    /\ reports' = ReportEnd(reports, on_progress)
    /\ pc' = "done"
    /\ UNCHANGED <<fn, frame, sigma, min_distance, min_intensity, background,
                   margin, tie, n_found, seeds, region, mask, t, crop_id, rows,
                   store, masks_zarr, output_before, on_progress, done, crop_idx,
                   raised, calls, prev, edt_origin>>
    /\ UNCHANGED tool_vars
    /\ events' = EndLogged(Append(events, CsvWritten), on_progress)

\* the caller runs the same functions once more on the same stores, this
\* time with the other choice of on_progress
RunAgain ==
    /\ pc = "done"
    /\ prev = <<>>
    /\ prev' = <<[calls |-> calls, masks |-> masks_zarr, output |-> output]>>
    /\ on_progress' = ~on_progress
    /\ pc' = "start"
    /\ UNCHANGED <<fn, frame, sigma, min_distance, min_intensity, background,
                   margin, tie, n_found, seeds, region, mask, t, crop_id, rows,
                   store, masks_zarr, output, output_before, reports, done,
                   crop_idx, raised, calls, edt_origin>>
    /\ UNCHANGED tool_vars
    /\ UNCHANGED events

Init == InitPeaks \/ InitWatershed
Next == CallPeaks \/ CallWatershed

\* both segmenters
Spec == Init /\ [][Next]_vars

SpecPeaks == InitPeaks /\ [][CallPeaks]_vars
SpecWatershed == InitWatershed /\ [][CallWatershed]_vars
SpecAnalyzeFrame == InitAnalyze /\ [][AnalyzeFrame]_vars

\* run_segment_watershed and run_analyze on one position, once or twice
NextPipeline ==
    \/ SegmentStart \/ SegmentCrop \/ SegmentFrame \/ SegmentFinish
    \/ AnalyzeStart \/ AnalyzeCrop \/ AnalyzeUnit \/ AnalyzeWrite
    \/ RunAgain

SpecPipeline == InitPipeline /\ [][NextPipeline]_vars

\* the same functions on the crops that show one bright block
SpecEndToEnd == InitBlob /\ [][NextPipeline]_vars

\* the segmenters on one frame, and the two functions on readable stores
SpecCore ==
    (InitPeaks \/ InitWatershed \/ InitStores)
        /\ [][CallPeaks \/ CallWatershed \/ NextPipeline]_vars


----------------------------------------------------------------------------
(* parse_slice_string (mufile/core.py, muspot/core.py, mupattern_py/common/slices.py) *)
(* A str is a sequence of one-character strings.                           *)

MaxStr == 5          \* the argument s has at most MaxStr characters
MaxLength == 3       \* the argument length ranges over 0..MaxLength

Whitespace == {" "}
Digits == {"0", "1", "2", "3", "4", "5", "6", "7", "8", "9"}

DigitValue(c) ==
    CASE c = "0" -> 0 [] c = "1" -> 1 [] c = "2" -> 2 [] c = "3" -> 3
      [] c = "4" -> 4 [] c = "5" -> 5 [] c = "6" -> 6 [] c = "7" -> 7
      [] c = "8" -> 8 [] c = "9" -> 9

Chars(q) == {q[i] : i \in 1 .. Len(q)}

\* str.strip()
RECURSIVE LStrip(_)
LStrip(q) == IF q # <<>> /\ Head(q) \in Whitespace THEN LStrip(Tail(q)) ELSE q

RECURSIVE RStrip(_)
RStrip(q) ==
    IF q # <<>> /\ q[Len(q)] \in Whitespace
    THEN RStrip(SubSeq(q, 1, Len(q) - 1)) ELSE q

Strip(q) == RStrip(LStrip(q))

\* str.lower(), on the letters of "all"
Lower(q) ==
    [i \in 1 .. Len(q) |->
        CASE q[i] = "A" -> "a" [] q[i] = "L" -> "l" [] OTHER -> q[i]]

\* str.split(sep): the pieces between the separators, at least one piece
RECURSIVE Split(_, _)
Split(q, sep) ==
    IF sep \notin Chars(q) THEN <<q>>
    ELSE LET i == CHOOSE k \in 1 .. Len(q) :
                      q[k] = sep /\ \A j \in 1 .. (k - 1) : q[j] # sep
         IN  <<SubSeq(q, 1, i - 1)>> \o Split(SubSeq(q, i + 1, Len(q)), sep)

\* the value of a string of digits and underscores
RECURSIVE Decimal(_, _)
Decimal(q, acc) ==
    IF q = <<>> THEN acc
    ELSE IF Head(q) = "_" THEN Decimal(Tail(q), acc)
    ELSE Decimal(Tail(q), 10 * acc + DigitValue(Head(q)))

\* int(p): surrounding whitespace is dropped, one sign is allowed, the rest
\* are digits with single underscores between them; ok is FALSE where int
\* raises ValueError
ParseInt(p) ==
    LET q == Strip(p)
        signed == q # <<>> /\ Head(q) \in {"+", "-"}
        body == IF signed THEN Tail(q) ELSE q
        wellformed ==
            /\ body # <<>>
            /\ Chars(body) \subseteq (Digits \cup {"_"})
            /\ Head(body) \in Digits
            /\ body[Len(body)] \in Digits
            /\ \A i \in 1 .. (Len(body) - 1) : ~(body[i] = "_" /\ body[i + 1] = "_")
    IN  IF wellformed
        THEN [ok |-> TRUE, none |-> FALSE,
              val |-> (IF Head(q) = "-" THEN -1 ELSE 1) * Decimal(body, 0)]
        ELSE [ok |-> FALSE, none |-> FALSE, val |-> 0]

\* line 75: int(p) if p else None
ParsePart(p) ==
    IF p = <<>> THEN [ok |-> TRUE, none |-> TRUE, val |-> 0] ELSE ParseInt(p)

\* slice(start, stop, step).indices(n), for a step that is None or not 0
SliceIndices(start, stop, step, n) ==
    LET st == IF step.none THEN 1 ELSE step.val
        lower == IF st < 0 THEN -1 ELSE 0
        upper == IF st < 0 THEN n - 1 ELSE n
        Bound(b, dflt) ==
            IF b.none THEN dflt
            ELSE IF b.val < 0
                 THEN (IF b.val + n > lower THEN b.val + n ELSE lower)
                 ELSE (IF b.val < upper THEN b.val ELSE upper)
    IN  <<Bound(start, IF st < 0 THEN upper ELSE lower),
          Bound(stop, IF st < 0 THEN lower ELSE upper), st>>

\* the members of range(start, stop, step)
RangeOf(i) ==
    IF i[3] > 0
    THEN {k \in i[1] .. (i[2] - 1) : (k - i[1]) % i[3] = 0}
    ELSE {k \in (i[2] + 1) .. i[1] : (i[1] - k) % (-i[3]) = 0}

NoneValue == [ok |-> TRUE, none |-> TRUE, val |-> 0]

\* indices.add(idx) in place of indices.add(idx % length)
IndexAsWritten(idx, n) == idx

\* line 83: idx % length
IndexOf(idx, n) == idx % n

\* lines 73-87: one segment that is not blank; add is what it adds to indices
SegmentOutcome(segment, n) ==
    IF ":" \in Chars(segment)
    THEN LET raw == Split(segment, ":")
             parts == [i \in 1 .. Len(raw) |-> ParsePart(raw[i])]
         IN  IF \E i \in 1 .. Len(parts) : ~parts[i].ok
             THEN [raised |-> "ValueError", message |-> "Invalid slice segment",
                   add |-> {}]
             ELSE IF Len(parts) = 3 /\ ~parts[3].none /\ parts[3].val = 0
             THEN [raised |-> "ValueError", message |-> "Slice step cannot be zero",
                   add |-> {}]
             ELSE IF Len(parts) > 3
             THEN [raised |-> "TypeError",
                   message |-> "slice expected at most 3 arguments", add |-> {}]
             ELSE [raised |-> "none", message |-> "",
                   add |-> RangeOf(SliceIndices(parts[1], parts[2],
                                IF Len(parts) = 3 THEN parts[3] ELSE NoneValue, n))]
    ELSE LET idx == ParseInt(segment)
         IN  IF ~idx.ok
             THEN [raised |-> "ValueError", message |-> "Invalid slice segment",
                   add |-> {}]
             ELSE IF idx.val < -n \/ idx.val >= n
             THEN [raised |-> "ValueError", message |-> "out of range", add |-> {}]
             ELSE [raised |-> "none", message |-> "", add |-> {IndexOf(idx.val, n)}]

\* lines 69-87: the loop over the segments, left to right, ended by the
\* first exception
RECURSIVE Collect(_, _, _)
Collect(segments, n, indices) ==
    IF segments = <<>>
    THEN [raised |-> "none", message |-> "", indices |-> indices]
    ELSE IF Strip(Head(segments)) = <<>>
    THEN Collect(Tail(segments), n, indices)
    ELSE LET r == SegmentOutcome(Strip(Head(segments)), n)
         IN  IF r.raised # "none"
             THEN [raised |-> r.raised, message |-> r.message, indices |-> indices]
             ELSE Collect(Tail(segments), n, indices \cup r.add)

\* line 92: sorted(indices)
Sorted(S) == Ascending(S)

\* lines 60-92
ParseSliceString(q, n) ==
    IF Lower(Strip(q)) = <<"a", "l", "l">>
    THEN [raised |-> "none", message |-> "", ret |-> [i \in 1 .. n |-> i - 1]]
    ELSE LET r == Collect(Split(q, ","), n, {})
         IN  IF r.raised # "none"
             THEN [raised |-> r.raised, message |-> r.message, ret |-> <<>>]
             ELSE IF r.indices = {}
             THEN [raised |-> "ValueError", message |-> "produced no indices",
                   ret |-> <<>>]
             ELSE [raised |-> "none", message |-> "", ret |-> Sorted(r.indices)]

\* the characters of the explored slice strings, and those of "all"
SliceChars == {"0", "1", "2", "-", ":", ",", " ", "x"}
AllChars == {"a", "l", "A", "L", " "}

StringsOver(alphabet, n) == UNION {[1 .. k -> alphabet] : k \in 0 .. n}

\* no frame, no store: a helper is called on its own
InitIdleCore ==
    /\ pc = "start"
    /\ frame = <<>> /\ mask = <<>> /\ background = 0
    /\ sigma = 0 /\ min_distance = 1 /\ min_intensity = 0 /\ margin = 0
    /\ tie = "first"
    /\ n_found = -1 /\ seeds = <<>> /\ region = <<>>
    /\ t = 0 /\ crop_id = "" /\ rows = <<>>
    /\ InitNoPipeline

InitSlices ==
    /\ InitIdleCore
    /\ fn = "parse_slice_string"
    /\ s \in StringsOver(SliceChars, MaxStr) \cup StringsOver(AllChars, MaxStr)
    /\ length \in 0 .. MaxLength
    /\ returned = <<>>
    /\ message = ""
    /\ InitNoClean
    /\ backend = ""
    /\ InitNoPredict

CallParseSliceString ==
    /\ pc = "start"
    /\ fn = "parse_slice_string"
    /\ \E r \in {ParseSliceString(s, length)} :
          /\ raised' = r.raised
          /\ message' = r.message
          /\ returned' = r.ret
    /\ pc' = "done"
    /\ UNCHANGED <<fn, frame, sigma, min_distance, min_intensity, background,
                   margin, tie, n_found, seeds, region, mask, t, crop_id, rows,
                   store, masks_zarr, output, output_before, on_progress, reports,
                   done, crop_idx, calls, prev, edt_origin, s, length>>
    /\ UNCHANGED <<clean_vars, backend, events, predict_vars>>

SpecSlices == InitSlices /\ [][CallParseSliceString]_vars

----------------------------------------------------------------------------
(* _find_violations and _clean_df (mukill/core.py) *)
(* A table is the sequence of its rows, a row a record of t, crop, label.  *)

MaxRows == 4         \* the tables have at most MaxRows rows

Times == {0, 1, 2}

RowValues == [t : Times, crop : {CropKeys[i] : i \in 1 .. Len(CropKeys)},
              label : BOOLEAN]

Tables == UNION {[1 .. n -> RowValues] : n \in 0 .. MaxRows}

\* the row orders df.groupby("crop") followed by group.sort_values("t") can
\* produce: groups by ascending key, rows of a group by ascending t; the
\* sort is not a stable one, rows of a group with equal t come in any order
SortOrders(d) ==
    {o \in Permutations(1 .. Len(d)) :
        \A i, j \in 1 .. Len(d) :
            i < j => \/ KeyRank(d[o[i]].crop) < KeyRank(d[o[j]].crop)
                     \/ /\ d[o[i]].crop = d[o[j]].crop
                        /\ d[o[i]].t <= d[o[j]].t}

CropsOf(d) == {d[i].crop : i \in 1 .. Len(d)}

\* lines 40-41, 58-59: the rows of one crop, sorted
SortedGroup(d, o, key) ==
    SelectSeq([i \in 1 .. Len(d) |-> d[o[i]]], LAMBDA row : row.crop = key)

\* lines 42-47: the scan of one group in _find_violations
RECURSIVE ScanViolations(_, _, _)
ScanViolations(group, seen_false, found) ==
    IF group = <<>> THEN found
    ELSE IF ~Head(group).label
    THEN ScanViolations(Tail(group), TRUE, found)
    ELSE IF seen_false
    THEN ScanViolations(Tail(group), seen_false, Append(found, Head(group)))
    ELSE ScanViolations(Tail(group), seen_false, found)

RECURSIVE ViolationsOfGroups(_, _, _, _)
ViolationsOfGroups(d, o, keys, found) ==
    IF keys = <<>> THEN found
    ELSE ViolationsOfGroups(d, o, Tail(keys),
             ScanViolations(SortedGroup(d, o, Head(keys)), FALSE, found))

\* lines 37-50
FindViolations(d, o) == ViolationsOfGroups(d, o, SortedKeys(CropsOf(d)), <<>>)

\* the corrected row reported and appended as it was
ScanKeepsLabel(group, seen_false, acc) ==
    IF group = <<>> THEN acc
    ELSE [rows |-> acc.rows \o group,
          corrected |-> acc.corrected \o ScanViolations(group, FALSE, <<>>)]

\* lines 60-72: the scan of one group in _clean_df
RECURSIVE Scan(_, _, _)
Scan(group, seen_false, acc) ==
    IF group = <<>> THEN acc
    ELSE IF ~Head(group).label
    THEN Scan(Tail(group), TRUE, [acc EXCEPT !.rows = Append(@, Head(group))])
    ELSE IF seen_false
    THEN Scan(Tail(group), seen_false,
              [rows |-> Append(acc.rows, [Head(group) EXCEPT !.label = FALSE]),
               corrected |-> Append(acc.corrected, Head(group))])
    ELSE Scan(Tail(group), seen_false, [acc EXCEPT !.rows = Append(@, Head(group))])

RECURSIVE CleanGroups(_, _, _, _)
CleanGroups(d, o, keys, acc) ==
    IF keys = <<>> THEN acc
    ELSE CleanGroups(d, o, Tail(keys), Scan(SortedGroup(d, o, Head(keys)), FALSE, acc))

\* the table scanned as one group: seen_false is not reset between crops
CleanDfUngrouped(d, o) ==
    Scan([i \in 1 .. Len(d) |-> d[o[i]]], FALSE, [rows |-> <<>>, corrected |-> <<>>])

\* lines 53-76
CleanDf(d, o) ==
    CleanGroups(d, o, SortedKeys(CropsOf(d)), [rows |-> <<>>, corrected |-> <<>>])

InitClean ==
    /\ InitIdleCore
    /\ InitNoSlices
    /\ fn = "clean"
    /\ df \in Tables
    /\ violations = <<>>
    /\ cleaned = <<>>
    /\ report = <<>>
    /\ first = <<>>
    /\ backend = ""
    /\ InitNoPredict

\* violations = _find_violations(df)
CallFindViolations ==
    /\ pc = "start"
    /\ fn = "clean"
    /\ \E o \in SortOrders(df) : violations' = FindViolations(df, o)
    /\ pc' = "found"
    /\ UNCHANGED <<fn, df, cleaned, report, first>>
    /\ UNCHANGED <<segment_vars, pipeline_vars, slice_vars, backend, predict_vars>>

\* cleaned, report = _clean_df(df)
CallCleanDf ==
    /\ pc = "found"
    /\ fn = "clean"
    /\ \E o \in SortOrders(df) :
          \E r \in {CleanDf(df, o)} :
              /\ cleaned' = r.rows
              /\ report' = r.corrected
    /\ pc' = "done"
    /\ UNCHANGED <<fn, df, violations, first>>
    /\ UNCHANGED <<segment_vars, pipeline_vars, slice_vars, backend, predict_vars>>

\* the cleaned table is checked and cleaned once more
CleanAgain ==
    /\ pc = "done"
    /\ fn = "clean"
    /\ first = <<>>
    /\ first' = <<[df |-> df, violations |-> violations, cleaned |-> cleaned,
                   report |-> report]>>
    /\ df' = cleaned
    /\ pc' = "start"
    /\ UNCHANGED <<fn, violations, cleaned, report>>
    /\ UNCHANGED <<segment_vars, pipeline_vars, slice_vars, backend, predict_vars>>

SpecClean == InitClean /\ [][CallFindViolations \/ CallCleanDf \/ CleanAgain]_vars

----------------------------------------------------------------------------
(* run_segment: Cellpose or CellSAM on each frame *)

Backends == {"cellpose", "cellsam", "watershed", "peaks"}

\* what model.eval / segment_cellular_image may return for a frame: the
\* models are not part of the program, any mask of the frame's shape is possible
ModelMasks(fluo) == FramesOf(Shape(fluo), {0, 1})

InitRunSegment ==
    /\ InitWalk
    /\ fn = "run_segment"
    /\ backend \in Backends
    /\ \E c \in CropGroups :
          /\ store = [crop |-> c, has_background |-> FALSE, background |-> <<>>,
                      no_channel |-> {}]
          /\ masks_zarr \in {<<>>, MasksLeft(c, 1)}
    /\ output = NoFile
    /\ on_progress = TRUE
    /\ edt_origin = 1
    /\ sigma = 0 /\ margin = 0 /\ min_distance = 1 /\ tie = "first"
    /\ InitNoSlices
    /\ InitNoClean
    /\ InitNoPredict

\* the output store opened (lines 173-176) ahead of the check of backend
RunSegmentOpensFirst ==
    /\ pc = "start"
    /\ fn = "run_segment"
    /\ calls' = <<"run_segment">>
    /\ events' = <<OutputOpened>>
    /\ IF backend \in {"cellpose", "cellsam"}
       THEN /\ pc' = "rs_crop"
            /\ UNCHANGED <<raised, message>>
       ELSE /\ raised' = "ValueError"
            /\ message' = "Unknown segment backend"
            /\ pc' = "aborted"
    /\ UNCHANGED <<fn, segment_vars, store, masks_zarr, output, output_before,
                   on_progress, reports, done, crop_idx, prev, edt_origin, s,
                   length, returned, clean_vars, backend, predict_vars>>

\* lines 149-180: read the crop keys, load the model of the backend or
\* raise, open the output store
RunSegmentStart ==
    /\ pc = "start"
    /\ fn = "run_segment"
    /\ calls' = <<"run_segment">>
    /\ IF backend \in {"cellpose", "cellsam"}
       THEN /\ events' = <<OutputOpened>>
            /\ pc' = "rs_crop"
            /\ UNCHANGED <<raised, message>>
       ELSE /\ raised' = "ValueError"
            /\ message' = "Unknown segment backend"
            /\ pc' = "aborted"
            /\ UNCHANGED events
    /\ UNCHANGED <<fn, segment_vars, store, masks_zarr, output, output_before,
                   on_progress, reports, done, crop_idx, prev, edt_origin, s,
                   length, returned, clean_vars, backend, predict_vars>>

\* lines 182-192: the next crop; its mask array is created anew, all zero
RunSegmentCrop ==
    /\ pc = "rs_crop"
    /\ crop_idx < Len(SortedKeys(DOMAIN store.crop))
    /\ \E cid \in {SortedKeys(DOMAIN store.crop)[crop_idx + 1]} :
          /\ crop_id' = cid
          /\ masks_zarr' = Put(masks_zarr, cid,
                               [k \in 1 .. Len(store.crop[cid]) |->
                                    Zeros(Shape(store.crop[cid][k]))])
          /\ events' = Append(events, ArrayCreated(cid))
          /\ IF Len(store.crop[cid]) = 0
             THEN crop_idx' = crop_idx + 1 /\ pc' = "rs_crop" /\ t' = t
             ELSE crop_idx' = crop_idx /\ pc' = "rs_frame" /\ t' = 0
    /\ UNCHANGED <<fn, frame, sigma, min_distance, min_intensity, background,
                   margin, tie, n_found, seeds, region, mask, rows, store, output,
                   output_before, on_progress, reports, done, raised, calls, prev,
                   edt_origin, tool_vars>>

\* lines 194-217: one (crop, t) unit; then the next t, or the next crop
RunSegmentFrame ==
    /\ pc = "rs_frame"
    /\ \E fluo \in {store.crop[crop_id][t + 1]} :
          \E masks \in ModelMasks(fluo) :
              /\ frame' = fluo
              /\ mask' = masks
              /\ masks_zarr' = [masks_zarr EXCEPT ![crop_id][t + 1] = masks]
    /\ done' = done + 1
    /\ reports' = ReportUnit(reports, on_progress, done + 1, TotalWork(store))
    /\ events' = UnitEvents(events, crop_id, t, on_progress, done + 1, TotalWork(store))
    /\ IF t + 1 < Len(store.crop[crop_id])
       THEN t' = t + 1 /\ crop_idx' = crop_idx /\ pc' = "rs_frame"
       ELSE t' = t /\ crop_idx' = crop_idx + 1 /\ pc' = "rs_crop"
    /\ UNCHANGED <<fn, sigma, min_distance, min_intensity, background, margin, tie,
                   n_found, seeds, region, crop_id, rows, store, output,
                   output_before, on_progress, raised, calls, prev, edt_origin,
                   tool_vars>>

\* lines 219-220: after the last crop
RunSegmentFinish ==
    /\ pc = "rs_crop"
    /\ crop_idx = Len(SortedKeys(DOMAIN store.crop))
    /\ reports' = ReportEnd(reports, on_progress)
    /\ events' = EndLogged(events, on_progress)
    /\ pc' = "segmented"
    /\ UNCHANGED <<fn, segment_vars, store, masks_zarr, output, output_before,
                   on_progress, done, crop_idx, raised, calls, prev, edt_origin,
                   tool_vars>>

SpecRunSegment ==
    InitRunSegment
        /\ [][RunSegmentStart \/ RunSegmentCrop \/ RunSegmentFrame
                \/ RunSegmentFinish]_vars

----------------------------------------------------------------------------
(* _predict_position (mukill/core.py, mukill/main.py) *)

MaxBatch == 3        \* batch_size ranges over 1..MaxBatch

\* the frames of the crops that are classified
PredictFrames == FramesOf(<<1, 2>>, {0, 1}) \ {<<<<1, 0>>>>, <<<<1, 1>>>>}

PredictArrays == UNION {[1 .. n -> PredictFrames] : n \in 0 .. (MaxT + 1)}

PredictGroups ==
    UNION {[keys -> PredictArrays] :
              keys \in SUBSET {CropKeys[k] : k \in 1 .. Len(CropKeys)}}

\* lines 294-298: the frame scaled to 0..255, all zero for a flat frame
Normalize(f) ==
    Once(SetMin({At(f, p) : p \in Pix(f)}), LAMBDA lo :
        Once(SetMax({At(f, p) : p \in Pix(f)}), LAMBDA hi :
            Array([y \in 1 .. Height(f) |-> [x \in 1 .. Width(f) |->
                IF hi > lo THEN ((f[y][x] - lo) * 255) \div (hi - lo) ELSE 0]])))

Images == {Normalize(f) : f \in PredictFrames}

\* the classifiers: the argmax of the logits is a function of the image
Classifiers ==
    {[img \in Images |-> \E p \in Pix(img) : At(img, p) > 0],
     [img \in Images |-> \A p \in Pix(img) : At(img, p) = 0]}

\* the ranges passed: None, or a pair of bounds
TimeRanges == {<<>>} \cup ({-1, 0, 1} \X {0, 1, 3})
CropRanges == {<<>>, <<0, 1>>, <<1, 2>>, <<0, 2>>}

\* int(c) for the keys of the store
CropNumber(c) == KeyRank(c) - 1

\* lines 268-271: the sorted keys, filtered by crop_range
SelectedCrops(st, cr) ==
    SelectSeq(SortedKeys(DOMAIN st.crop),
              LAMBDA c : IF cr = <<>> THEN TRUE
                         ELSE cr[1] <= CropNumber(c) /\ CropNumber(c) < cr[2])

\* lines 289-290
TStart(tr) == IF tr # <<>> THEN tr[1] ELSE 0
TEnd(tr, n_times) ==
    IF tr # <<>> THEN (IF tr[2] < n_times THEN tr[2] ELSE n_times) ELSE n_times

\* lines 305-307, 315-317: the rows _run_batch gives for a batch
RunBatch(mdl, imgs, meta) ==
    [k \in 1 .. Len(imgs) |->
        [t |-> meta[k][1], crop |-> meta[k][2], label |-> mdl[imgs[k]]]]

\* the function returns without running the pending batch
FinalFlushSkipped(res, mdl, imgs, meta) == res

\* lines 314-317: results after the pending batch is run, if there is one
FinalFlush(res, mdl, imgs, meta) ==
    IF imgs # <<>> THEN res \o RunBatch(mdl, imgs, meta) ELSE res

\* lines 311-312
ReportCrop(log, cb, i, total) ==
    IF cb /\ total > 0 THEN Append(log, <<i + 1, total>>) ELSE log

InitPredict ==
    /\ InitWalk
    /\ fn = "predict"
    /\ \E c \in PredictGroups :
          store = [crop |-> c, has_background |-> FALSE, background |-> <<>>,
                   no_channel |-> {}]
    /\ masks_zarr = <<>>
    /\ output = NoFile
    /\ on_progress = TRUE
    /\ edt_origin = 1
    /\ sigma = 0 /\ margin = 0 /\ min_distance = 1 /\ tie = "first"
    /\ InitNoSlices
    /\ InitNoClean
    /\ backend = ""
    /\ model \in Classifiers
    /\ batch_size \in 1 .. MaxBatch
    /\ t_range \in TimeRanges
    /\ crop_range \in CropRanges
    /\ batch_imgs = <<>>
    /\ batch_meta = <<>>
    /\ results = <<>>
    /\ batches = <<>>

\* lines 265-285
PredictStart ==
    /\ pc = "start"
    /\ fn = "predict"
    /\ calls' = <<"_predict_position">>
    /\ crop_idx' = 0
    /\ pc' = "pr_crop"
    /\ UNCHANGED <<fn, segment_vars, store, masks_zarr, output, output_before,
                   on_progress, reports, done, raised, prev, edt_origin, events,
                   tool_vars>>

\* lines 286-292, 311-312: the next crop; a crop without a timepoint in the
\* range is reported and passed
PredictCrop ==
    /\ pc = "pr_crop"
    /\ crop_idx < Len(SelectedCrops(store, crop_range))
    /\ \E cid \in {SelectedCrops(store, crop_range)[crop_idx + 1]} :
          /\ crop_id' = cid
          /\ IF TStart(t_range) < TEnd(t_range, Len(store.crop[cid]))
             THEN /\ t' = TStart(t_range)
                  /\ pc' = "pr_frame"
                  /\ UNCHANGED <<crop_idx, reports>>
             ELSE /\ reports' = ReportCrop(reports, on_progress, crop_idx,
                                           Len(SelectedCrops(store, crop_range)))
                  /\ crop_idx' = crop_idx + 1
                  /\ pc' = "pr_crop"
                  /\ t' = t
    /\ UNCHANGED <<fn, frame, sigma, min_distance, min_intensity, background,
                   margin, tie, n_found, seeds, region, mask, rows, store,
                   masks_zarr, output, output_before, on_progress, done, raised,
                   calls, prev, edt_origin, events, tool_vars>>

\* lines 293-312: one (crop, t): the image joins the batch, a full batch is
\* run and cleared; after the last t of the crop the callback is called
PredictFrame ==
    /\ pc = "pr_frame"
    /\ IF t < -Len(store.crop[crop_id])
       THEN /\ raised' = "IndexError"
            /\ pc' = "aborted"
            /\ UNCHANGED <<frame, batch_imgs, batch_meta, results, batches, t,
                           crop_idx, reports>>
       ELSE /\ \E fr \in {store.crop[crop_id][(t % Len(store.crop[crop_id])) + 1]} :
                 \E imgs \in {Append(batch_imgs, Normalize(fr))} :
                     \E meta \in {Append(batch_meta, <<t, crop_id>>)} :
                         /\ frame' = fr
                         /\ IF Len(imgs) >= batch_size
                            THEN /\ results' = results \o RunBatch(model, imgs, meta)
                                 /\ batches' = Append(batches, meta)
                                 /\ batch_imgs' = <<>>
                                 /\ batch_meta' = <<>>
                            ELSE /\ batch_imgs' = imgs
                                 /\ batch_meta' = meta
                                 /\ UNCHANGED <<results, batches>>
            /\ IF t + 1 < TEnd(t_range, Len(store.crop[crop_id]))
               THEN /\ t' = t + 1
                    /\ pc' = "pr_frame"
                    /\ UNCHANGED <<crop_idx, reports>>
               ELSE /\ reports' = ReportCrop(reports, on_progress, crop_idx,
                                             Len(SelectedCrops(store, crop_range)))
                    /\ crop_idx' = crop_idx + 1
                    /\ pc' = "pr_crop"
                    /\ t' = t
            /\ raised' = raised
    /\ UNCHANGED <<fn, sigma, min_distance, min_intensity, background, margin, tie,
                   n_found, seeds, region, mask, crop_id, rows, store, masks_zarr,
                   output, output_before, on_progress, done, calls, prev,
                   edt_origin, events, slice_vars, clean_vars, backend, model,
                   batch_size, t_range, crop_range>>

\* lines 314-319: after the last crop the pending batch is run; the lists of
\* the batch are not cleared
PredictFinish ==
    /\ pc = "pr_crop"
    /\ crop_idx = Len(SelectedCrops(store, crop_range))
    /\ results' = FinalFlush(results, model, batch_imgs, batch_meta)
    /\ batches' = IF batch_imgs # <<>> THEN Append(batches, batch_meta) ELSE batches
    /\ pc' = "done"
    /\ UNCHANGED <<fn, segment_vars, pipeline_vars, slice_vars, clean_vars, backend,
                   model, batch_size, t_range, crop_range, batch_imgs, batch_meta>>

SpecPredict ==
    InitPredict /\ [][PredictStart \/ PredictCrop \/ PredictFrame \/ PredictFinish]_vars

----------------------------------------------------------------------------
(* Properties *)

Returned == pc = "done"

Values(a) == {At(a, p) : p \in Pix(a)}

\* C1: the mask returned by _segment_frame_peaks and by
\* _segment_frame_watershed has the height and the width of the input frame,
\* on every return path, the early all-zero returns included.
C1_MaskShape ==
    Returned /\ fn \in {"peaks", "watershed"} =>
        /\ Height(mask) = Height(frame)
        /\ \A y \in 1 .. Height(mask) : Len(mask[y]) = Width(frame)

\* an early all-zero return on a frame that is not square
C1_Witness ==
    /\ Returned /\ fn = "watershed" /\ n_found = 0
    /\ Shape(frame) = <<2, 3>> /\ Shape(mask) = <<2, 3>>

\* C2: peak mode: with N > 0 plateaus every pixel of the mask has a label in
\* 1..N and none is 0; with N = 0 the mask is all zero.
C2_PeakLabels ==
    Returned /\ fn = "peaks" =>
        IF n_found > 0
        THEN \A p \in Pix(mask) : At(mask, p) \in 1 .. n_found
        ELSE \A p \in Pix(mask) : At(mask, p) = 0

\* several plateaus, and pixels that are no seed
C2_Witness ==
    /\ Returned /\ fn = "peaks" /\ n_found >= 2
    /\ \E p \in Pix(seeds) : At(seeds, p) = 0 /\ At(mask, p) = 2

\* C3: watershed mode without blur: a pixel with frame[p] <= background + margin
\* has mask[p] = 0, so nonzero labels occur only where frame[p] > background +
\* margin; a pixel exactly at the threshold is background.
C3_BackgroundStaysZero ==
    Returned /\ fn = "watershed" /\ sigma <= 0 =>
        \A p \in Pix(frame) :
            At(frame, p) <= background + margin => At(mask, p) = 0

\* a labelled pixel next to a pixel exactly at a positive threshold
C3_Witness ==
    /\ Returned /\ fn = "watershed" /\ sigma <= 0 /\ background + margin = 1
    /\ \E p, q \in Pix(frame) :
          /\ Adjacent(p, q)
          /\ At(frame, p) = background + margin /\ At(mask, p) = 0
          /\ At(mask, q) > 0

\* C4: watershed mode: whenever a marker exists, every foreground pixel carries
\* a marker's label and every background pixel is 0, foreground components
\* without a marker of their own included.
C4_ForegroundAllLabelled ==
    Returned /\ fn = "watershed" /\ n_found > 0 =>
        \A p \in Pix(mask) :
            IF At(region, p) THEN At(mask, p) \in 1 .. n_found ELSE At(mask, p) = 0

\* the nonzero labels that occur in a mask
CellLabels(a) == Values(a) \ {0}

PixelsOf(a, L) == {p \in Pix(a) : At(a, p) = L}

RECURSIVE SeqSum(_, _)
SeqSum(f, n) == IF n = 0 THEN 0 ELSE f[n] + SeqSum(f, n - 1)

\* the k-th pixel of an array in C order
PixelAt(a, k) == <<((k - 1) \div Width(a)) + 1, ((k - 1) % Width(a)) + 1>>

\* the sum of fl over all pixels, each weighted 1 where masks has a label of S
\* and 0 elsewhere
WeightedSum(fl, masks, S) ==
    SeqSum([k \in 1 .. Height(fl) * Width(fl) |->
               IF At(masks, PixelAt(fl, k)) \in S THEN At(fl, PixelAt(fl, k)) ELSE 0],
           Height(fl) * Width(fl))

\* C5: quantifier: for every nonzero label L of the mask the reported cell_area
\* is the number of pixels with mask[p] = L, and the cell_area of all records of
\* the frame add up to the number of nonzero pixels of the mask.
C5_CellArea ==
    Returned /\ fn = "analyze" =>
        /\ \A L \in CellLabels(mask) :
              /\ \E i \in 1 .. Len(rows) : rows[i].cell = L
              /\ \A i \in 1 .. Len(rows) :
                    rows[i].cell = L => rows[i].cell_area = Cardinality(PixelsOf(mask, L))
        /\ SeqSum([i \in 1 .. Len(rows) |-> rows[i].cell_area], Len(rows))
              = Cardinality({p \in Pix(mask) : At(mask, p) # 0})

\* a cell of two pixels with label 3 beside a background pixel
C5_Witness ==
    /\ Returned /\ fn = "analyze" /\ Len(rows) = 1
    /\ rows[1].cell = 3 /\ rows[1].cell_area = 2
    /\ 0 \in Values(mask)

\* C6: quantifier: for every nonzero label L of the mask the reported
\* total_fluorescence is the sum of frame[p] over exactly the pixels with
\* mask[p] = L, so the totals of a frame's records add up to the sum of the
\* frame over the nonzero pixels of the mask.
C6_TotalFluorescence ==
    Returned /\ fn = "analyze" =>
        /\ \A L \in CellLabels(mask) :
              /\ \E i \in 1 .. Len(rows) : rows[i].cell = L
              /\ \A i \in 1 .. Len(rows) :
                    rows[i].cell = L =>
                        rows[i].total_fluorescence = WeightedSum(frame, mask, {L})
        /\ SeqSum([i \in 1 .. Len(rows) |-> rows[i].total_fluorescence], Len(rows))
              = WeightedSum(frame, mask, CellLabels(mask))

\* two cells and a background pixel, all three bright
C6_Witness ==
    /\ Returned /\ fn = "analyze" /\ Len(rows) = 2
    /\ rows[1].total_fluorescence = 1 /\ rows[2].total_fluorescence = 2
    /\ \E p \in Pix(mask) : At(mask, p) = 0 /\ At(frame, p) = 2

\* C7: quantifier: one record per distinct nonzero label of the mask, in
\* strictly ascending label order, each with cell_area >= 1; none for label 0;
\* a mask without a nonzero label yields no record.
C7_OneRecordPerLabel ==
    Returned /\ fn = "analyze" =>
        /\ Len(rows) = Cardinality(CellLabels(mask))
        /\ {rows[i].cell : i \in 1 .. Len(rows)} = CellLabels(mask)
        /\ \A i, j \in 1 .. Len(rows) : i < j => rows[i].cell < rows[j].cell
        /\ \A i \in 1 .. Len(rows) : rows[i].cell_area >= 1 /\ rows[i].cell # 0

\* labels 3, 0, 1 in this order in the mask: records for 1 and 3
C7_Witness ==
    /\ Returned /\ fn = "analyze" /\ mask = <<<<3, 0, 1>>>>
    /\ Len(rows) = 2 /\ rows[1].cell = 1 /\ rows[2].cell = 3

\* C8: the nonzero labels that occur in the mask of either segmenter are
\* exactly 1..N, N the number of plateaus resp. markers: contiguous from 1, none
\* missing, none above N.
C8_LabelsContiguous ==
    Returned /\ fn \in {"peaks", "watershed"} => CellLabels(mask) = 1 .. n_found

\* three plateaus, all three labels in the mask
C8_Witness ==
    Returned /\ fn = "peaks" /\ n_found = 3 /\ CellLabels(mask) = {1, 2, 3}

\* the frame has one pixel that is greater than every other pixel
SingleGlobalMaximum(a) ==
    \E p \in Pix(a) : \A q \in Pix(a) \ {p} : At(a, q) < At(a, p)

\* q lies in the 3 x 3 window around p
InWindow3(p, q) ==
    p[1] - q[1] \in {-1, 0, 1} /\ p[2] - q[2] \in {-1, 0, 1}

\* the maximum exceeds min_intensity, and every other pixel is at most
\* min_intensity or smaller than a pixel of its 3 x 3 window
OnlyLocalMaximum(a, mi) ==
    \E p \in Pix(a) :
        /\ At(a, p) > mi
        /\ \A q \in Pix(a) \ {p} :
              /\ At(a, q) < At(a, p)
              /\ \/ At(a, q) <= mi
                 \/ \E r \in Pix(a) : InWindow3(q, r) /\ At(a, r) > At(a, q)

UniformlyOne(a) == \A p \in Pix(a) : At(a, p) = 1

C9_Setting ==
    Returned /\ fn = "peaks" /\ min_distance = 1 /\ sigma = 0 /\ min_intensity = 0

\* C9 as stated: peak mode, min_distance = 1, sigma = 0, min_intensity = 0: a
\* frame with a single global maximum pixel gives exactly one plateau and a mask
\* that is 1 everywhere.
C9_SingleMaximumOnePlateau ==
    C9_Setting /\ SingleGlobalMaximum(frame) => n_found = 1 /\ UniformlyOne(mask)

\* C9 amended: the same when the single global maximum exceeds min_intensity and
\* every other pixel is at most min_intensity or smaller than a pixel of its
\* 3 x 3 window; the 5 x 5 frame of zeros with 100 at (2, 2) is such a frame.
C9_OnlyLocalMaximumOnePlateau ==
    /\ C9_Setting /\ OnlyLocalMaximum(frame, min_intensity) =>
          n_found = 1 /\ UniformlyOne(mask)
    /\ OnlyLocalMaximum(BlockFrame(5, 1, 3, 3, 100), 0)

\* the 5 x 5 frame of zeros with 100 at (2, 2), segmented
C9_Witness ==
    /\ C9_Setting /\ frame = BlockFrame(5, 1, 3, 3, 100)
    /\ mask = [y \in 1 .. 5 |-> [x \in 1 .. 5 |-> 1]]

\* the 7 x 7 frame of zeros with a 3 x 3 block of 10 centred at (3, 3)
C10_Frame == BlockFrame(7, 3, 3, 3, 10)

C10_Setting ==
    /\ Returned /\ fn = "watershed" /\ frame = C10_Frame
    /\ background = 0 /\ margin = 0 /\ sigma = 0 /\ min_distance = 1

\* C10: watershed mode on that frame with background = 0, margin = 0, sigma = 0,
\* min_distance = 1: the foreground is the 3 x 3 block, there is one marker, the
\* single centre pixel (3, 3), and the mask is 1 on the block and 0 elsewhere.
C10_BlockCase ==
    C10_Setting =>
        /\ TruePix(region) = (3 .. 5) \X (3 .. 5)
        /\ n_found = 1
        /\ {p \in Pix(seeds) : At(seeds, p) # 0} = {<<4, 4>>}
        /\ mask = BlockFrame(7, 3, 3, 3, 1)

C10_Witness == C10_Setting /\ At(mask, <<4, 4>>) = 1

\* every pixel of a has the same value
Flat(a) == Cardinality(Values(a)) = 1

\* C11: in peak mode a uniform frame, every pixel having the same value,
\* produces zero plateaus and an all-zero mask, for every constant value and
\* every min_intensity, a value greater than min_intensity included.
C11_FlatFrameNoPeaks ==
    (Returned /\ fn = "peaks" /\ Flat(frame)) =>
        (n_found = 0 /\ mask = Zeros(Shape(frame)))

\* every pixel of a is 0
AllZero(a) == \A p \in Pix(a) : At(a, p) = 0

\* the call found no peak pixel, no foreground pixel or no seed candidate
NothingFound == Returned /\ fn \in {"peaks", "watershed"} /\ n_found = 0

\* a unit of run_analyze whose mask is all zero has just been read
ZeroMaskRead == pc = "an_frame" /\ pc' # "aborted" /\ AllZero(mask')

\* C12: a frame with no peak pixel (peak mode), with no foreground pixel or
\* with no seed candidate (watershed mode) yields an all-zero mask of the
\* frame's shape, and a unit of run_analyze whose mask is all zero adds no
\* record, raises nothing and leaves the loop at the next unit.
C12_DegenerateInputs ==
    /\ [](NothingFound => (Shape(mask) = Shape(frame) /\ AllZero(mask)))
    /\ [][ZeroMaskRead =>
            /\ rows' = rows
            /\ raised' = "none"
            /\ done' = done + 1
            /\ \/ pc' = "an_frame" /\ t' = t + 1 /\ crop_idx' = crop_idx
               \/ pc' = "an_crop" /\ crop_idx' = crop_idx + 1]_vars

\* a run of run_analyze has passed a unit whose mask was all zero and, after
\* it, a unit that gave a record
C12_Witness ==
    /\ fn = "pipeline" /\ pc = "done"
    /\ done = 2 /\ Len(rows) = 1 /\ rows[1].t = 1
    /\ AllZero(masks_zarr[rows[1].crop][1])

\* row r comes strictly before row q in the order (crop, t, cell)
RowBefore(r, q) ==
    \/ KeyRank(r.crop) < KeyRank(q.crop)
    \/ r.crop = q.crop /\ r.t < q.t
    \/ r.crop = q.crop /\ r.t = q.t /\ r.cell < q.cell

\* rs is strictly ascending in that order
RowsAscending(rs) == \A i \in 1 .. (Len(rs) - 1) : RowBefore(rs[i], rs[i + 1])

\* C13: the records of run_analyze are in one stable order: ascending crop id
\* (the sorted keys), within a crop ascending t, within a (crop, t) ascending
\* cell label; any two consecutive rows are strictly ascending in (crop, t,
\* cell), while they are collected and in the file written.
C13_RecordOrder ==
    fn = "pipeline" =>
        /\ RowsAscending(rows)
        /\ pc = "done" => output.rows = rows

\* a file whose consecutive rows change the crop, the timepoint and the label
C13_Witness ==
    /\ fn = "pipeline" /\ pc = "done"
    /\ \E i, j, k \in 1 .. (Len(output.rows) - 1) :
          /\ output.rows[i].crop # output.rows[i + 1].crop
          /\ output.rows[j].crop = output.rows[j + 1].crop
          /\ output.rows[j].t # output.rows[j + 1].t
          /\ output.rows[k].crop = output.rows[k + 1].crop
          /\ output.rows[k].t = output.rows[k + 1].t
          /\ output.rows[k].cell < output.rows[k + 1].cell

\* a reported fraction <<n, d>> is the real number n / d
InUnitInterval(f) == f[2] > 0 /\ 0 <= f[1] /\ f[1] <= f[2]
FractionLeq(f, g) == f[1] * g[2] <= g[1] * f[2]
IsOne(f) == f[1] = f[2]

\* one of the two functions is running, has ended or was aborted
InCall == pc \in {"seg_crop", "seg_frame", "segmented", "an_crop", "an_frame",
                  "done", "aborted"}

\* the call has run to its end
CallEnded == pc \in {"segmented", "done"}

\* C14: the fractions reported by run_segment_watershed and by run_analyze in
\* one call are non-decreasing and lie in [0, 1]; one report follows each
\* completed (crop, t) unit, and one more report, with fraction exactly 1.0,
\* is the last call of the run, the only one when there is no unit.
C14_ProgressReports ==
    (fn = "pipeline" /\ InCall /\ on_progress) =>
        /\ \A i \in 1 .. Len(reports) : InUnitInterval(reports[i])
        /\ \A i \in 1 .. (Len(reports) - 1) : FractionLeq(reports[i], reports[i + 1])
        /\ ~CallEnded => Len(reports) = done
        /\ CallEnded =>
              /\ done = TotalWork(store)
              /\ Len(reports) = done + 1
              /\ IsOne(reports[Len(reports)])

\* a call that reported three units and then the end
C14_Witness ==
    /\ fn = "pipeline" /\ CallEnded /\ on_progress
    /\ Len(reports) = 4
    /\ ~IsOne(reports[1]) /\ ~IsOne(reports[2]) /\ IsOne(reports[3])

\* this is the second run on the same stores, with the other on_progress
SecondRun == fn = "pipeline" /\ prev # <<>>

\* C15: a missing progress receiver does not alter behaviour: a run of
\* run_segment_watershed and run_analyze without callback writes the same
\* masks and the same rows, in the same order, as the run with a callback on
\* the same inputs.
C15_CallbackIrrelevant ==
    SecondRun =>
        /\ pc \in {"segmented", "done"} => masks_zarr = prev[1].masks
        /\ pc = "done" => output = prev[1].output

\* both runs segmented a frame into a cell and wrote its record; the first
\* had a callback, the second none
C15_Witness ==
    /\ SecondRun /\ pc = "done" /\ ~on_progress
    /\ calls = <<"run_segment_watershed", "run_analyze">>
    /\ reports = <<>>
    /\ Len(output.rows) >= 2

\* the units of the position: <<crop id, t>>
Units == {u \in (DOMAIN store.crop) \X (0 .. MaxT + 1) : u[2] < Len(store.crop[u[1]])}

UnitFrame(u) == store.crop[u[1]][u[2] + 1]

\* the mask of unit u computed from its frame, its background and the
\* configuration alone
MaskAlone(u) ==
    LET th == BackgroundOf(store, u[2], UnitFrame(u)) + Float(margin)
    IN  SegmentFrameWatershed(UnitFrame(u), th, sigma, min_distance,
            IF TruePix(Foreground(Smoothed(UnitFrame(u), sigma), th)) = Pix(UnitFrame(u))
            THEN <<edt_origin, 1>> ELSE <<0, 0>>, tie).ret

\* the records of unit u computed from its frame, its mask and its background alone
RowsAlone(u) ==
    FrameRows(<<>>, UnitFrame(u), masks_zarr[u[1]][u[2] + 1], u[2], u[1],
              BackgroundOf(store, u[2], UnitFrame(u)))

\* the records of unit u among rs
RowsOf(rs, u) == SelectSeq(rs, LAMBDA r : r.crop = u[1] /\ r.t = u[2])

\* C16: the mask and the records of a (crop, t) unit are a function of that
\* unit's frame, its background value and the configuration only: whatever
\* units were processed before it, the mask stored by run_segment_watershed
\* and the records written by run_analyze are those the unit gives alone, and
\* a second run on the same input stores the same masks.
C16_UnitIndependence ==
    fn = "pipeline" =>
        /\ (pc = "segmented" \/ (pc = "done" /\ calls[1] = "run_segment_watershed")) =>
              /\ \A u \in Units : masks_zarr[u[1]][u[2] + 1] = MaskAlone(u)
              /\ prev # <<>> => masks_zarr = prev[1].masks
        /\ pc = "done" =>
              \A u \in Units : RowsOf(output.rows, u) = RowsAlone(u)

\* four units, segmented with backgrounds that differ from unit to unit, of
\* which the first gives a cell and the last none
C16_Witness ==
    /\ fn = "pipeline" /\ pc = "done" /\ calls[1] = "run_segment_watershed"
    /\ Cardinality(Units) = 4
    /\ ~store.has_background
    /\ RowsAlone(<<CropKeys[1], 0>>) # <<>>
    /\ RowsAlone(<<CropKeys[2], 1>>) = <<>>
    /\ \E u, v \in Units :
          BackgroundOf(store, u[2], UnitFrame(u)) # BackgroundOf(store, v[2], UnitFrame(v))

\* the k-th smallest pixel value of a, k = 1 the smallest
OrderStatistic(a, k) ==
    CHOOSE v \in Values(a) :
        /\ Cardinality({p \in Pix(a) : At(a, p) < v}) < k
        /\ Cardinality({p \in Pix(a) : At(a, p) <= v}) >= k

\* m is the median of a: the middle value, or the mean of the two middle values
IsMedian(a, m) ==
    LET n == Cardinality(Pix(a))
    IN  2 * m = FxOne * (OrderStatistic(a, (n + 1) \div 2)
                         + OrderStatistic(a, (n \div 2) + 1))

\* a step that processes a unit, in either function
UnitStep == pc \in {"seg_frame", "an_frame"} /\ pc' # "aborted"

\* C17: with a background array in the position, the background used for
\* (crop, t) is the value stored at (t, fluorescence channel); without one it
\* is the median intensity of the current, unblurred frame, in
\* run_segment_watershed and in run_analyze alike.
C17_BackgroundSelection ==
    [][UnitStep =>
          /\ frame' = store.crop[crop_id][t + 1]
          /\ IF store.has_background
             THEN background' = FxOne * store.background[t + 1]
             ELSE IsMedian(frame', background')]_vars

\* run_analyze has read a frame whose median lies between its two pixels
C17_Witness ==
    /\ fn = "pipeline" /\ pc = "done" /\ ~store.has_background
    /\ calls = <<"run_analyze">>
    /\ done > 0
    /\ 2 * background = FxOne
    /\ Values(frame) = {0, 1}

\* b is the background value obtained for the frame of crop cid at time tt
IsBackgroundOf(b, cid, tt) ==
    IF store.has_background
    THEN b = FxOne * store.background[tt + 1]
    ELSE IsMedian(store.crop[cid][tt + 1], b)

\* C18: every record emitted for a (crop, t) carries the background value
\* obtained for that frame, the same in all records of the frame, whatever
\* the number of labels, the label values and the pixel sums.
C18_BackgroundPassedThrough ==
    fn = "pipeline" =>
        /\ \A i \in 1 .. Len(rows) : IsBackgroundOf(rows[i].background, rows[i].crop, rows[i].t)
        /\ pc = "done" => output.rows = rows

\* two records of one frame, both with the background stored for t = 1
C18_Witness ==
    /\ fn = "pipeline" /\ pc = "done" /\ store.has_background
    /\ \E i \in 1 .. (Len(output.rows) - 1) :
          /\ output.rows[i].crop = output.rows[i + 1].crop
          /\ output.rows[i].t = 1 /\ output.rows[i + 1].t = 1
          /\ output.rows[i].background = FxOne
          /\ output.rows[i + 1].background = FxOne
          /\ output.rows[i].cell # output.rows[i + 1].cell

\* the pixels of a brighter than the background b
Bright(a, b) == {p \in Pix(a) : At(a, p) > b}

\* S is one 4-connected set of pixels
RECURSIVE Reach(_, _)
Reach(S, C) ==
    LET D == C \cup {q \in S : \E p \in C : Adjacent(p, q)}
    IN  IF D = C THEN C ELSE Reach(S, D)

Connected(S) == S # {} /\ Reach(S, {CHOOSE p \in S : TRUE}) = S

\* S is a filled square block of pixels
SquareBlock(S) ==
    /\ S # {}
    /\ LET y0 == SetMin({p[1] : p \in S})
           y1 == SetMax({p[1] : p \in S})
           x0 == SetMin({p[2] : p \in S})
           x1 == SetMax({p[2] : p \in S})
       IN  S = (y0 .. y1) \X (x0 .. x1) /\ y1 - y0 = x1 - x0

\* the position has one crop with two timepoints, background BlobBackground
\* at both, and the bright pixels of each frame satisfy Shape1
BlobScenario(Shape1(_)) ==
    /\ fn = "pipeline" /\ pc = "done"
    /\ calls = <<"run_segment_watershed", "run_analyze">>
    /\ DOMAIN store.crop = {CropKeys[1]}
    /\ Len(store.crop[CropKeys[1]]) = 2
    /\ store.has_background
    /\ \A k \in 1 .. 2 :
          /\ store.background[k] = BlobBackground
          /\ Shape1(Bright(store.crop[CropKeys[1]][k], BlobBackground))

\* the record of the blob of the frame at time tt, as cell 1
BlobRow(tt) ==
    LET f == store.crop[CropKeys[1]][tt + 1]
    IN  [t |-> tt, crop |-> CropKeys[1], cell |-> 1,
         total_fluorescence |-> SumOver(f, Bright(f, BlobBackground)),
         cell_area |-> Cardinality(Bright(f, BlobBackground)),
         background |-> FxOne * BlobBackground]

\* C19 as stated: for a crop with 2 timepoints that shows one single bright
\* blob at t = 0 and at t = 1 with background 5.0 at both times,
\* run_segment_watershed followed by run_analyze produces exactly the 2
\* records (t = 0, crop, cell 1) and (t = 1, crop, cell 1), each with cell_area
\* the blob's pixel count and total_fluorescence the sum of the blob's pixels.
C19_OneBlobTwoRecords ==
    BlobScenario(Connected) => output.rows = <<BlobRow(0), BlobRow(1)>>

\* C19 amended: the same when there is no blur (sigma = 0), margin = 0 and
\* the pixels brighter than 5.0 form a filled square block in each frame,
\* every other pixel being at most 5.0 and at least one such pixel existing.
C19_OneBlockTwoRecords ==
    (BlobScenario(SquareBlock) /\ sigma = 0 /\ margin = 0) =>
        output.rows = <<BlobRow(0), BlobRow(1)>>

\* blocks of different size at t = 0 and t = 1, the first at the frame's
\* corner, over a floor equal to the background
C19_Witness ==
    /\ BlobScenario(SquareBlock) /\ sigma = 0 /\ margin = 0
    /\ min_distance = 1
    /\ Len(output.rows) = 2
    /\ output.rows[1].cell_area = 9 /\ output.rows[2].cell_area = 4
    /\ At(store.crop[CropKeys[1]][1], <<1, 1>>) > BlobBackground
    /\ At(store.crop[CropKeys[1]][1], <<BlobSide, BlobSide>>) = BlobBackground

\* the function that is running, or that ended last
CurrentCall == calls[Len(calls)]

\* the crops before the one at crop_idx
EarlierCrops ==
    {SortedKeys(DOMAIN store.crop)[k] : k \in 1 .. crop_idx}

\* C20: an I/O error raised while a (crop, t) is processed (a crop without
\* the channel, a mask array that is missing) aborts the call and leaves the
\* output written before intact: in run_segment_watershed the masks of all
\* earlier crops keep the values written for them, and in run_analyze the
\* file at the output path is as it was on entry until every unit has been
\* read, so an aborted call leaves an existing CSV untouched.
C20_AbortKeepsOutput ==
    (fn = "pipeline" /\ calls # <<>>) =>
        /\ (pc = "aborted" /\ CurrentCall = "run_segment_watershed") =>
              /\ raised # "none"
              /\ \A cid \in EarlierCrops :
                    /\ cid \in DOMAIN masks_zarr
                    /\ Len(masks_zarr[cid]) = Len(store.crop[cid])
                    /\ \A k \in 1 .. Len(store.crop[cid]) :
                          masks_zarr[cid][k] = MaskAlone(<<cid, k - 1>>)
        /\ (pc \in {"an_crop", "an_frame", "aborted"} /\ CurrentCall = "run_analyze") =>
              output = output_before

\* run_analyze was aborted at the second crop after it had collected a
\* record of the first, with a file of an earlier run at the output path
C20_Witness ==
    /\ fn = "pipeline" /\ pc = "aborted" /\ raised # "none"
    /\ calls = <<"run_analyze">>
    /\ crop_idx = 1
    /\ Len(rows) > 0
    /\ output = OldFile

----------------------------------------------------------------------------
(* parse_slice_string *)

Parsed == fn = "parse_slice_string" /\ pc = "done"

\* the segments of q between the commas, without surrounding whitespace
SegmentsOf(q) == {Strip(Split(q, ",")[i]) : i \in 1 .. Len(Split(q, ","))}

PartsOf(seg) == Split(seg, ":")

\* an integer i with -n <= i < n
IsValidInteger(seg, n) ==
    /\ ":" \notin Chars(seg)
    /\ ParseInt(seg).ok
    /\ -n <= ParseInt(seg).val /\ ParseInt(seg).val < n

\* a slice a:b or a:b:c, each of a, b, c an integer or absent, c not 0
IsValidSlice(seg) ==
    /\ ":" \in Chars(seg)
    /\ Len(PartsOf(seg)) \in {2, 3}
    /\ \A i \in 1 .. Len(PartsOf(seg)) : ParsePart(PartsOf(seg)[i]).ok
    /\ Len(PartsOf(seg)) = 3 /\ PartsOf(seg)[3] # <<>>
          => ParseInt(PartsOf(seg)[3]).val # 0

IsMix(q, n) ==
    \A seg \in SegmentsOf(q) : seg = <<>> \/ IsValidInteger(seg, n) \/ IsValidSlice(seg)

\* what one segment of a mix selects
Selected(seg, n) ==
    IF seg = <<>> THEN {}
    ELSE IF IsValidInteger(seg, n) THEN {ParseInt(seg).val % n}
    ELSE RangeOf(SliceIndices(ParsePart(PartsOf(seg)[1]), ParsePart(PartsOf(seg)[2]),
                              IF Len(PartsOf(seg)) = 3
                              THEN ParsePart(PartsOf(seg)[3]) ELSE NoneValue, n))

UnionOf(q, n) == UNION {Selected(seg, n) : seg \in SegmentsOf(q)}

\* l lists exactly the members of S, strictly ascending
IsAscendingListOf(l, S) ==
    /\ {l[i] : i \in 1 .. Len(l)} = S
    /\ \A i \in 1 .. (Len(l) - 1) : l[i] < l[i + 1]

ReturnsUnion ==
    /\ raised = "none"
    /\ IsAscendingListOf(returned, UnionOf(s, length))
    /\ \A i \in 1 .. Len(returned) : 0 <= returned[i] /\ returned[i] < length

\* C21 as stated: for length >= 1 and s a comma-separated mix of valid
\* integers and slices with a step other than 0, parse_slice_string returns
\* the strictly ascending duplicate-free list of the union of i mod length
\* and the slices' members, every index in [0, length).
C21_MixReturnsUnion ==
    (Parsed /\ length >= 1 /\ IsMix(s, length)) => ReturnsUnion

\* C21 amended: the same, for a mix whose union is not empty.
C21_NonEmptyMixReturnsUnion ==
    (Parsed /\ length >= 1 /\ IsMix(s, length) /\ UnionOf(s, length) # {})
        => ReturnsUnion

\* a mix with a slice of negative step and a negative integer was parsed
C21_Witness ==
    /\ Parsed
    /\ length >= 1
    /\ IsMix(s, length)
    /\ Len(returned) >= 2
    /\ \E seg \in SegmentsOf(s) :
          /\ IsValidSlice(seg)
          /\ Len(PartsOf(seg)) = 3 /\ PartsOf(seg)[3] # <<>>
          /\ ParseInt(PartsOf(seg)[3]).val < 0

IsOutOfRange(seg, n) ==
    /\ ":" \notin Chars(seg)
    /\ ParseInt(seg).ok
    /\ ~(-n <= ParseInt(seg).val /\ ParseInt(seg).val < n)

IsStepZero(seg) ==
    /\ ":" \in Chars(seg)
    /\ Len(PartsOf(seg)) = 3
    /\ \A i \in 1 .. 3 : ParsePart(PartsOf(seg)[i]).ok
    /\ PartsOf(seg)[3] # <<>>
    /\ ParseInt(PartsOf(seg)[3]).val = 0

IsMalformed(seg) ==
    /\ seg # <<>>
    /\ IF ":" \in Chars(seg)
       THEN \/ Len(PartsOf(seg)) > 3
            \/ \E i \in 1 .. Len(PartsOf(seg)) : ~ParsePart(PartsOf(seg)[i]).ok
       ELSE ~ParseInt(seg).ok

IsAll(q) == Lower(Strip(q)) = <<"a", "l", "l">>

MessagesOf(q, n) ==
    {m \in {"out of range", "Slice step cannot be zero", "Invalid slice segment"} :
        \E seg \in SegmentsOf(q) :
            \/ m = "out of range" /\ IsOutOfRange(seg, n)
            \/ m = "Slice step cannot be zero" /\ IsStepZero(seg)
            \/ m = "Invalid slice segment" /\ IsMalformed(seg)}

\* C22: parse_slice_string raises ValueError on every invalid input and
\* returns nothing: 'out of range', 'step cannot be zero', 'Invalid slice
\* segment' (a segment with more than three parts included) or, for a string
\* that selects no index, 'produced no indices'; no exception of another
\* type escapes.
C22_InvalidInputRaisesValueError ==
    (Parsed /\ ~IsAll(s)) =>
        /\ raised \in {"none", "ValueError"}
        /\ MessagesOf(s, length) # {}
              => /\ raised = "ValueError"
                 /\ returned = <<>>
                 /\ message \in MessagesOf(s, length)
        /\ (MessagesOf(s, length) = {} /\ UnionOf(s, length) = {})
              => /\ raised = "ValueError"
                 /\ returned = <<>>
                 /\ message = "produced no indices"

----------------------------------------------------------------------------
(* _find_violations and _clean_df *)

RowsOfTable(d) == {d[i] : i \in 1 .. Len(d)}

\* no two rows of d have the same t and the same crop
DistinctKeys(d) ==
    \A i, j \in 1 .. Len(d) : (d[i].t = d[j].t /\ d[i].crop = d[j].crop) => i = j

\* within every crop, a row after a row of label false has label false
Monotone(d) ==
    \A a, b \in RowsOfTable(d) :
        (a.crop = b.crop /\ a.t < b.t /\ ~a.label) => ~b.label

Cleaned == fn = "clean" /\ pc = "done"

\* _find_violations has been applied to the table _clean_df returned
CleanedChecked == fn = "clean" /\ first # <<>> /\ pc \in {"found", "done"}

\* the table that was cleaned first
Original == IF first = <<>> THEN df ELSE first[1].df

\* C23 as stated: the table _clean_df returns is monotone in every crop and
\* _find_violations applied to it returns no rows, for any input table.
C23_CleanedHasNoViolations ==
    /\ Cleaned => Monotone(cleaned)
    /\ CleanedChecked => violations = <<>>

\* C23 amended: the same, for input tables in which no two rows have the
\* same t and crop.
C23_DistinctKeysCleanedHasNoViolations ==
    DistinctKeys(Original) => C23_CleanedHasNoViolations

\* a table with distinct keys and a violation was cleaned, and the cleaned
\* table was checked
C23_Witness ==
    /\ CleanedChecked
    /\ DistinctKeys(Original)
    /\ first[1].report # <<>>
    /\ \E a \in RowsOfTable(df) : a.label

KeyOf(row) == <<row.t, row.crop>>

KeysOf(d) == {KeyOf(d[i]) : i \in 1 .. Len(d)}

\* the number of rows of d with key k
KeyCount(d, k) == Cardinality({i \in 1 .. Len(d) : KeyOf(d[i]) = k})

\* the labels the rows of key k have in d
LabelsAt(d, k) == {d[i].label : i \in {j \in 1 .. Len(d) : KeyOf(d[j]) = k}}

ChangesExactlyViolations ==
    /\ Len(cleaned) = Len(df)
    /\ \A k \in KeysOf(df) \cup KeysOf(cleaned) : KeyCount(cleaned, k) = KeyCount(df, k)
    /\ \A k \in KeysOf(df) :
          /\ LabelsAt(cleaned, k) # LabelsAt(df, k)
                <=> k \in KeysOf(violations)
          /\ LabelsAt(cleaned, k) # LabelsAt(df, k)
                => (LabelsAt(df, k) = {TRUE} /\ LabelsAt(cleaned, k) = {FALSE})
    /\ Len(report) = Len(violations)
    /\ RowsOfTable(report) = RowsOfTable(violations)
    /\ violations = <<>> => \A k \in KeysOf(df) : LabelsAt(cleaned, k) = LabelsAt(df, k)
    /\ first # <<>> => \A k \in KeysOf(df) : LabelsAt(cleaned, k) = LabelsAt(df, k)

\* C30 as stated: _clean_df changes exactly the rows _find_violations
\* reports: same number of rows with the same keys, every changed label
\* goes from true to false, one report entry per violation, and a clean
\* table (a table cleaned before in particular) keeps its labels.
C30_CleanChangesExactlyViolations ==
    Cleaned => ChangesExactlyViolations

\* C30 amended: the same, for input tables in which no two rows have the
\* same t and crop.
C30_DistinctKeysCleanChangesExactlyViolations ==
    (Cleaned /\ DistinctKeys(Original)) => ChangesExactlyViolations

\* a table with distinct keys, violations in both crops and a row of label
\* false was cleaned
C30_Witness ==
    /\ Cleaned
    /\ first = <<>>
    /\ DistinctKeys(df)
    /\ Len(violations) >= 2
    /\ Cardinality({violations[i].crop : i \in 1 .. Len(violations)}) = 2

----------------------------------------------------------------------------
(* Peak mode: seeds and tessellation *)

SeedPixels == {q \in Pix(seeds) : At(seeds, q) > 0}

PeaksFound == Returned /\ fn = "peaks" /\ n_found > 0

\* C24: peak mode: for every pixel p of the mask with label L and every seed
\* pixel q, the squared Euclidean distance from p to the seed of plateau L is
\* at most that from p to q; every seed pixel carries its plateau's label.
C24_NearestSeedTessellation ==
    PeaksFound =>
        /\ \A p \in Pix(mask) :
              /\ \E sd \in SeedPixels : At(seeds, sd) = At(mask, p)
              /\ \A sd \in SeedPixels :
                    At(seeds, sd) = At(mask, p)
                        => \A q \in SeedPixels : SqDist(p, sd) <= SqDist(p, q)
        /\ \A q \in SeedPixels : At(mask, q) = At(seeds, q)

\* a pixel that is no seed lies strictly nearer to its own seed than to
\* another seed which is nearer by city-block distance or equally near
C24_Witness ==
    /\ PeaksFound
    /\ n_found >= 2
    /\ \E p \in Pix(mask) \ SeedPixels : \E sd, q \in SeedPixels :
          /\ At(seeds, sd) = At(mask, p)
          /\ SqDist(p, sd) < SqDist(p, q)
          /\ Abs(p[1] - q[1]) + Abs(p[2] - q[2])
                <= Abs(p[1] - sd[1]) + Abs(p[2] - sd[2])

\* the plateaus: the 4-connected components of the peak pixels
Plateaus == {Reach(TruePix(region), {p}) : p \in TruePix(region)}

\* C25: peak mode: each plateau has exactly one seed pixel, inside the
\* plateau, of the plateau's maximal blurred intensity and first in
\* row-major order among the pixels of that intensity; seeds of different
\* plateaus are different pixels.
C25_OneSeedPerPlateau ==
    PeaksFound =>
        /\ SeedPixels \subseteq TruePix(region)
        /\ Cardinality(SeedPixels) = Cardinality(Plateaus)
        /\ \A P \in Plateaus :
              /\ Cardinality(P \cap SeedPixels) = 1
              /\ \A sd \in P \cap SeedPixels :
                    /\ \A q \in P :
                          At(Smoothed(frame, sigma), q) <= At(Smoothed(frame, sigma), sd)
                    /\ \A q \in P :
                          At(Smoothed(frame, sigma), q) = At(Smoothed(frame, sigma), sd)
                              => Raster(frame, sd) <= Raster(frame, q)
        /\ \A sd, q \in SeedPixels : At(seeds, sd) = At(seeds, q) => sd = q

\* two plateaus, one of them with several pixels
C25_Witness ==
    /\ PeaksFound
    /\ Cardinality(Plateaus) = 2
    /\ \E P \in Plateaus : Cardinality(P) >= 2

----------------------------------------------------------------------------
(* Order of writes and reports *)

MaskEvents == SelectSeq(events, LAMBDA e : e.kind = "mask")

\* unit a comes before unit b: by crop id, then by t
UnitBefore(a, b) ==
    \/ KeyRank(a.crop) < KeyRank(b.crop)
    \/ a.crop = b.crop /\ a.t < b.t

\* the units whose mask was written before entry i of the log
WrittenBefore(i) ==
    {<<events[j].crop, events[j].t>> : j \in {k \in 1 .. (i - 1) : events[k].kind = "mask"}}

\* C26: run_segment_watershed visits the crops in ascending crop-id order and
\* the timepoints of a crop in ascending t; each (crop, t) gets exactly one
\* mask, written into slot t of the crop's mask array before the progress
\* report of that unit; the final report comes only after the mask of every
\* (crop, t) has been written, in run_analyze only after the CSV is written.
C26_PipelineOrdering ==
    (fn = "pipeline" /\ InCall) =>
        /\ CurrentCall = "run_segment_watershed" =>
              /\ \A i, j \in 1 .. Len(MaskEvents) :
                    i < j => UnitBefore(MaskEvents[i], MaskEvents[j])
              /\ \A i \in 1 .. Len(MaskEvents) :
                    /\ <<MaskEvents[i].crop, MaskEvents[i].t>> \in Units
                    /\ masks_zarr[MaskEvents[i].crop][MaskEvents[i].t + 1]
                          = MaskAlone(<<MaskEvents[i].crop, MaskEvents[i].t>>)
              /\ \A i \in 1 .. Len(events) :
                    events[i].kind = "report" =>
                        /\ i > 1
                        /\ events[i - 1].kind = "mask"
                        /\ Cardinality(WrittenBefore(i)) = events[i].done
              /\ \A i \in 1 .. Len(events) :
                    events[i].kind = "end" =>
                        i = Len(events) /\ WrittenBefore(i) = Units
              /\ pc = "segmented" => Len(MaskEvents) = Cardinality(Units)
        /\ CurrentCall = "run_analyze" =>
              \A i \in 1 .. Len(events) :
                  events[i].kind = "end" =>
                      /\ i = Len(events)
                      /\ \E j \in 1 .. (i - 1) : events[j].kind = "csv"
                      /\ output = [exists |-> TRUE, rows |-> rows]

\* two crops with three units in all were segmented under a callback
C26_Witness ==
    /\ fn = "pipeline"
    /\ pc = "segmented"
    /\ on_progress
    /\ Cardinality(DOMAIN store.crop) = 2
    /\ Len(MaskEvents) >= 3
    /\ events[Len(events)].kind = "end"

----------------------------------------------------------------------------
(* run_segment *)

\* C27: run_segment with a backend other than 'cellpose' and 'cellsam'
\* raises ValueError before the output mask store is opened: no mask group
\* or array is created or overwritten, no frame is read and no progress
\* report is delivered.
C27_UnknownBackendRaisesFirst ==
    (fn = "run_segment" /\ pc # "start" /\ backend \notin {"cellpose", "cellsam"}) =>
        /\ pc = "aborted"
        /\ raised = "ValueError"
        /\ events = <<>>
        /\ masks_zarr \in {<<>>, MasksLeft(store.crop, 1)}
        /\ frame = <<>>
        /\ mask = <<>>
        /\ reports = <<>>
        /\ done = 0

\* the call with backend 'watershed' was aborted; masks of an earlier
\* segmentation of two crops are in the output store
C27_Witness ==
    /\ fn = "run_segment"
    /\ pc = "aborted"
    /\ backend = "watershed"
    /\ on_progress
    /\ Cardinality(DOMAIN store.crop) = 2
    /\ \E cid \in DOMAIN masks_zarr : Len(masks_zarr[cid]) > 0

----------------------------------------------------------------------------
(* Watershed mode: markers *)

WatershedReturned == Returned /\ fn = "watershed"

MarkerFound ==
    /\ n_found > 0
    /\ seeds # <<>>
    /\ \E p \in Pix(seeds) : At(seeds, p) > 0
    /\ ~AllZero(mask)

\* C28 as stated: watershed mode: whenever the foreground is non-empty at
\* least one marker exists, so the return for n_seeds = 0 is not taken and
\* the mask of a frame with a foreground pixel is never all zero.
C28_ForegroundHasMarker ==
    (WatershedReturned /\ TruePix(region) # {}) => MarkerFound

\* C28 amended: the same, for a foreground that is non-empty and is not the
\* whole frame.
C28_PartialForegroundHasMarker ==
    (WatershedReturned /\ TruePix(region) # {} /\ TruePix(region) # Pix(region))
        => MarkerFound

\* a frame with a single foreground pixel, which has distance 1, and
\* windows of side 5
C28_Witness ==
    /\ WatershedReturned
    /\ min_distance = 2
    /\ Cardinality(TruePix(region)) = 1
    /\ Cardinality(Pix(region)) > 1
    /\ n_found = 1

----------------------------------------------------------------------------
(* _predict_position *)

Predicted == fn = "predict" /\ pc = "done"

\* the (t, crop) pairs the call is to classify
Wanted ==
    {u \in ((-1) .. (MaxT + 1)) \X (DOMAIN store.crop) :
        /\ crop_range # <<>> =>
              (crop_range[1] <= CropNumber(u[2]) /\ CropNumber(u[2]) < crop_range[2])
        /\ (IF t_range = <<>> THEN 0 ELSE t_range[1]) <= u[1]
        /\ u[1] < Len(store.crop[u[2]])
        /\ t_range # <<>> => u[1] < t_range[2]}

\* the frame arr[t, 0, 0]; a negative t counts from the end
FrameAt(u) == store.crop[u[2]][(u[1] % Len(store.crop[u[2]])) + 1]

\* the image the classifier is given for a frame
Scaled(f) ==
    [y \in 1 .. Height(f) |-> [x \in 1 .. Width(f) |->
        IF \E p, q \in Pix(f) : At(f, p) # At(f, q)
        THEN IF At(f, <<y, x>>) = SetMax(Values(f)) THEN 255 ELSE 0
        ELSE 0]]

\* the items of all the batches, in the order they were handed over
RECURSIVE Flatten(_)
Flatten(bs) == IF bs = <<>> THEN <<>> ELSE Head(bs) \o Flatten(Tail(bs))

ResultsComplete ==
    /\ {<<results[k].t, results[k].crop>> : k \in 1 .. Len(results)} = Wanted
    /\ Len(results) = Cardinality(Wanted)
    /\ \A k \in 1 .. (Len(results) - 1) :
          \/ KeyRank(results[k].crop) < KeyRank(results[k + 1].crop)
          \/ /\ results[k].crop = results[k + 1].crop
             /\ results[k].t < results[k + 1].t
    /\ \A k \in 1 .. Len(results) :
          results[k].label = model[Scaled(FrameAt(<<results[k].t, results[k].crop>>))]

BatchesBounded ==
    /\ \A k \in 1 .. Len(batches) :
          Len(batches[k]) >= 1 /\ Len(batches[k]) <= batch_size
    /\ Flatten(batches) = [k \in 1 .. Len(results) |-> <<results[k].t, results[k].crop>>]

\* C29 as stated: for every batch_size >= 1 the returned list holds exactly
\* one result for each (crop, t) of the selected crops and times, in
\* ascending (crop, t) order, the same for every batch_size; no batch holds
\* more than batch_size items, no item is lost or duplicated across crop
\* boundaries, and the pending batch is empty when the function returns.
C29_BatchingEmptyAtReturn ==
    Predicted =>
        /\ ResultsComplete
        /\ BatchesBounded
        /\ batch_imgs = <<>> /\ batch_meta = <<>>

\* C29 amended: the same, except that the pending batch is run before the
\* function returns without being emptied.
C29_BatchingFlushedAtReturn ==
    Predicted =>
        /\ ResultsComplete
        /\ BatchesBounded
        /\ \A k \in 1 .. Len(batch_meta) :
              \E j \in 1 .. Len(results) :
                  batch_meta[k] = <<results[j].t, results[j].crop>>

\* a batch of three items ran across the boundary of two crops and one item
\* was left for the final batch
C29_Witness ==
    /\ Predicted
    /\ batch_size = 3
    /\ Len(results) = 4
    /\ Len(batches) = 2
    /\ Cardinality({batches[1][k][2] : k \in 1 .. Len(batches[1])}) = 2
    /\ Len(batch_meta) = 1

====
